---------------------------- MODULE Spec2Model ----------------------------
(***************************************************************************)
(* Patch similarity and classification engine of LDPatch.                  *)
(*                                                                         *)
(* A patch is a sequence of lines, a line is a sequence of one-character   *)
(* strings, so that the string operations of the code (startswith, strip,  *)
(* split, re.sub, join, splitlines) are computed character by character.   *)
(* Scores are exact rationals <<n, d>> in lowest terms.                    *)
(***************************************************************************)
EXTENDS Integers, Sequences, FiniteSets, TLC

(***************************************************************************)
(* Exact rational arithmetic for the scores.                               *)
(***************************************************************************)
RECURSIVE GCD(_, _)
GCD(a, b) ==
    IF b = 0 THEN a ELSE GCD(b, a % b)

\* what stands for the ZeroDivisionError of n / 0; the operations below
\* hand it on
DivisionByZero ==
    <<0, 0>>

\* n / d
Rat(n, d) ==
    IF d = 0 THEN DivisionByZero
    ELSE IF n = 0 THEN <<0, 1>>
    ELSE LET g == GCD(n, d) IN <<n \div g, d \div g>>

RAdd(x, y) ==
    Rat(x[1] * y[2] + y[1] * x[2], x[2] * y[2])

RMul(x, y) ==
    Rat(x[1] * y[1], x[2] * y[2])

RDiv2(x) ==
    Rat(x[1], 2 * x[2])

RLt(x, y) ==
    x[1] * y[2] < y[1] * x[2]

RLeq(x, y) ==
    x[1] * y[2] <= y[1] * x[2]

RZero ==
    <<0, 1>>

ROne ==
    <<1, 1>>

(***************************************************************************)
(* Strings as sequences of characters.                                     *)
(***************************************************************************)
Whitespace ==
    {" ", "\t", "\r", "\n", "\f"}

StartsWith(s, p) ==
    /\ Len(s) >= Len(p)
    /\ SubSeq(s, 1, Len(p)) = p

RECURSIVE LStrip(_)
LStrip(s) ==
    IF s # <<>> /\ Head(s) \in Whitespace THEN LStrip(Tail(s)) ELSE s

RECURSIVE RStrip(_)
RStrip(s) ==
    IF s # <<>> /\ s[Len(s)] \in Whitespace
    THEN RStrip(SubSeq(s, 1, Len(s) - 1))
    ELSE s

\* str.strip()
Strip(s) ==
    RStrip(LStrip(s))

\* str.replace(c, '')
RemoveChar(s, c) ==
    SelectSeq(s, LAMBDA x : x # c)

\* str.split(): the maximal runs of non-whitespace characters, in order
RECURSIVE SplitWs(_, _, _)
SplitWs(s, cur, acc) ==
    IF s = <<>>
    THEN IF cur = <<>> THEN acc ELSE Append(acc, cur)
    ELSE IF Head(s) \in Whitespace
         THEN SplitWs(Tail(s), <<>>, IF cur = <<>> THEN acc ELSE Append(acc, cur))
         ELSE SplitWs(Tail(s), Append(cur, Head(s)), acc)

\* str.split(sep) for a one-character separator
RECURSIVE SplitOn(_, _, _, _)
SplitOn(s, sep, cur, acc) ==
    IF s = <<>>
    THEN Append(acc, cur)
    ELSE IF Head(s) = sep
         THEN SplitOn(Tail(s), sep, <<>>, Append(acc, cur))
         ELSE SplitOn(Tail(s), sep, Append(cur, Head(s)), acc)

\* sep.join(parts)
RECURSIVE Join(_, _)
Join(parts, sep) ==
    IF parts = <<>> THEN <<>>
    ELSE IF Len(parts) = 1 THEN parts[1]
    ELSE parts[1] \o sep \o Join(Tail(parts), sep)

\* str.splitlines(): breaks at \n, \r, \r\n, \f; no empty last line
RECURSIVE SplitLines(_, _, _)
SplitLines(s, cur, acc) ==
    IF s = <<>>
    THEN IF cur = <<>> THEN acc ELSE Append(acc, cur)
    ELSE IF Head(s) = "\r" /\ Len(s) >= 2 /\ s[2] = "\n"
         THEN SplitLines(Tail(Tail(s)), <<>>, Append(acc, cur))
         ELSE IF Head(s) \in {"\n", "\r", "\f"}
              THEN SplitLines(Tail(s), <<>>, Append(acc, cur))
              ELSE SplitLines(Tail(s), Append(cur, Head(s)), acc)

\* re.sub(r'^([ab]/)+', '', fname)
RECURSIVE StripABPrefix(_)
StripABPrefix(s) ==
    IF Len(s) >= 2 /\ s[1] \in {"a", "b"} /\ s[2] = "/"
    THEN StripABPrefix(SubSeq(s, 3, Len(s)))
    ELSE s

SeqToSet(s) ==
    {s[i] : i \in 1..Len(s)}

UpperChars ==
    <<"A", "B", "C", "D", "E", "F", "G", "H", "I", "J", "K", "L", "M">> \o
    <<"N", "O", "P", "Q", "R", "S", "T", "U", "V", "W", "X", "Y", "Z">>

LowerChars ==
    <<"a", "b", "c", "d", "e", "f", "g", "h", "i", "j", "k", "l", "m">> \o
    <<"n", "o", "p", "q", "r", "s", "t", "u", "v", "w", "x", "y", "z">>

\* str.lower()
Lower(s) ==
    [i \in 1..Len(s) |->
        IF \E k \in 1..26 : UpperChars[k] = s[i]
        THEN LowerChars[CHOOSE k \in 1..26 : UpperChars[k] = s[i]]
        ELSE s[i]]

\* index of the last occurrence of character c in s, 0 when there is none
LastIndexOf(s, c) ==
    IF \E i \in 1..Len(s) : s[i] = c
    THEN CHOOSE i \in 1..Len(s) : s[i] = c /\ \A j \in (i + 1)..Len(s) : s[j] # c
    ELSE 0

\* a variant of Basename: the directories are kept
BasenameWithDirs(p) ==
    p

\* os.path.basename
Basename(p) ==
    SubSeq(p, LastIndexOf(p, "/") + 1, Len(p))

\* os.path.splitext: <<root, ext>>; the leading dots of the last component
\* do not start an extension
SplitExt(p) ==
    LET sep == LastIndexOf(p, "/")
        dot == LastIndexOf(p, ".")
    IN  IF dot > sep /\ \E k \in (sep + 1)..(dot - 1) : p[k] # "."
        THEN <<SubSeq(p, 1, dot - 1), SubSeq(p, dot, Len(p))>>
        ELSE <<p, <<>> >>

(***************************************************************************)
(* rpm_patch_analyzer.py                                                   *)
(***************************************************************************)
NORMAL_EXTS ==
    {<<".", "c">>, <<".", "c", "p", "p">>, <<".", "c", "c">>, <<".", "h">>,
     <<".", "h", "p", "p">>, <<".", "h", "h">>, <<".", "p", "y">>,
     <<".", "j", "a", "v", "a">>, <<".", "j", "s">>, <<".", "r", "b">>,
     <<".", "g", "o">>, <<".", "s", "h">>, <<".", "b", "a", "s", "h">>,
     <<".", "p", "l">>, <<".", "p", "h", "p">>,
     <<".", "h", "t", "m", "l">>, <<".", "h", "t", "m">>,
     <<".", "c", "s", "s">>, <<".", "x", "m", "l">>,
     <<".", "j", "s", "o", "n">>, <<".", "y", "a", "m", "l">>,
     <<".", "y", "m", "l">>, <<".", "t", "o", "m", "l">>,
     <<".", "i", "n", "i">>, <<".", "t", "x", "t">>, <<".", "m", "d">>,
     <<".", "r", "s", "t">>, <<".", "c", "o", "n", "f">>,
     <<".", "i", "n">>, <<".", "a", "m">>, <<".", "m", "4">>,
     <<".", "p", "o">>, <<".", "p", "o", "t">>,
     <<".", "d", "e", "s", "k", "t", "o", "p">>,
     <<".", "s", "e", "r", "v", "i", "c", "e">>,
     <<".", "s", "p", "e", "c">>, <<".", "x", "s", "l", "t">>,
     <<".", "m", "a", "k", "e">>, <<".", "m", "k">>, <<".", "a", "c">>,
     <<".", "c", "m", "a", "k", "e">>, <<".", "c", "f", "g">>,
     <<".", "c", "s", "v">>, <<".", "s", "v", "g">>, <<".", "1">>}

BackupSuffixes ==
    {<<"~">>, <<".", "b", "a", "k">>, <<".", "o", "r", "i", "g">>,
     <<".", "b", "a", "c", "k", "u", "p">>}

EndsWith(s, suf) ==
    /\ Len(s) >= Len(suf)
    /\ SubSeq(s, Len(s) - Len(suf) + 1, Len(s)) = suf

\* re.sub(r'(~|\.bak|\.orig|\.backup)$', '', s)
StripBackupSuffix(s) ==
    IF \E suf \in BackupSuffixes : EndsWith(s, suf)
    THEN LET suf == CHOOSE x \in BackupSuffixes : EndsWith(s, x)
         IN  SubSeq(s, 1, Len(s) - Len(suf))
    ELSE s

\* the while loop of normalize_patch_filename: drop extensions until a
\* normal one (or none) is left
RECURSIVE DropOddExts(_, _)
DropOddExts(base, ext) ==
    IF ext # <<>> /\ Lower(ext) \notin NORMAL_EXTS
    THEN LET be == SplitExt(base) IN DropOddExts(be[1], be[2])
    ELSE base \o ext

normalize_patch_filename(filename) ==
    LET be    == SplitExt(filename)
        base  == be[1]
        ext   == be[2]
        named == IF ext = <<>> /\ base # <<>>
                 THEN StripBackupSuffix(base)
                 ELSE IF Lower(ext) \notin NORMAL_EXTS
                      THEN DropOddExts(base, ext)
                      ELSE filename
    IN  StripBackupSuffix(named)

strip_patch_path(file_path, strip_level) ==
    IF file_path = <<>> \/ strip_level = 0
    THEN file_path
    ELSE LET parts == SplitOn(file_path, "/", <<>>, <<>>)
         IN  IF Len(parts) <= strip_level
             THEN parts[Len(parts)]
             ELSE Join(SubSeq(parts, strip_level + 1, Len(parts)), <<"/">>)

HunkMarker ==
    <<"@", "@", " ">>

MinusHeader ==
    <<"-", "-", "-", " ">>

PlusHeader ==
    <<"+", "+", "+", " ">>

\* one line of the loop of normalize_patch_content, once inside a hunk:
\* the lines it appends for a line that is not a hunk marker
NormalizeHunkLine(line) ==
    LET clean_line == Strip(RemoveChar(line, "\r"))
    IN  IF clean_line = <<>>
        THEN <<>>
        ELSE IF StartsWith(clean_line, MinusHeader) \/ StartsWith(clean_line, PlusHeader)
             THEN LET toks  == SplitWs(clean_line, <<>>, <<>>)
                      fname == StripABPrefix(toks[Len(toks)])
                  IN  <<SubSeq(clean_line, 1, 4) \o fname>>
             ELSE <<clean_line>>

\* a variant of SkipLine: no line is passed over
SkipNever(in_hunk) ==
    FALSE

\* if not in_hunk: continue
SkipLine(in_hunk) ==
    ~in_hunk

\* a variant of NormalizedMarker: the hunk-marker line is kept as written
MarkerKept(line) ==
    line

\* normalized_lines.append('@@'): what is appended for a hunk-marker line
NormalizedMarker(line) ==
    <<"@", "@">>

RECURSIVE NormalizeLoop(_, _, _)
NormalizeLoop(lines, in_hunk, normalized_lines) ==
    IF lines = <<>>
    THEN normalized_lines
    ELSE IF StartsWith(Head(lines), HunkMarker)
         THEN NormalizeLoop(Tail(lines), TRUE,
                            Append(normalized_lines, NormalizedMarker(Head(lines))))
         ELSE IF SkipLine(in_hunk)
              THEN NormalizeLoop(Tail(lines), in_hunk, normalized_lines)
              ELSE NormalizeLoop(Tail(lines), in_hunk,
                                 normalized_lines \o NormalizeHunkLine(Head(lines)))

\* normalize_patch_content of a list of lines
normalize_patch_content(patch_content) ==
    NormalizeLoop(patch_content, FALSE, <<>>)

\* normalize_patch_content of a string
normalize_patch_text(patch_text) ==
    normalize_patch_content(SplitLines(patch_text, <<>>, <<>>))

\* get_patch_hash: the digest is represented by the text that is digested
\* (md5 of the lines joined by newlines), so equal hashes are equal texts
get_patch_hash(normalized_patch_content) ==
    Join(normalized_patch_content, <<"\n">>)

IsFileHeader(line) ==
    StartsWith(line, MinusHeader) \/ StartsWith(line, PlusHeader)

IsDiffLine(line) ==
    StartsWith(line, <<"+">>) \/ StartsWith(line, <<"-">>)

\* the file name extract_patch_features derives from one header line
HeaderFileName(line, strip_level) ==
    LET file_name     == StripABPrefix(Strip(SubSeq(line, 5, Len(line))))
        file_stripped == strip_patch_path(file_name, strip_level)
    IN  normalize_patch_filename(Basename(file_stripped))

extract_patch_features(normalized_content, strip_level) ==
    [normalized_filenames |->
        {HeaderFileName(normalized_content[i], strip_level) :
            i \in {k \in 1..Len(normalized_content) : IsFileHeader(normalized_content[k])}},
     normalized_diff_lines |-> SelectSeq(normalized_content, IsDiffLine)]

\* a variant of EitherEmpty: the sets are not tested
EitherEmptyIgnored(set1, set2) ==
    FALSE

\* if not set1 or not set2
EitherEmpty(set1, set2) ==
    set1 = {} \/ set2 = {}

\* Jaccard index of two sets, 0 when either is empty
file_list_similarity(files1, files2) ==
    IF EitherEmpty(files1, files2)
    THEN RZero
    ELSE Rat(Cardinality(files1 \cap files2), Cardinality(files1 \cup files2))

diff_lines_similarity(diff1, diff2) ==
    LET set1 == SeqToSet(diff1)
        set2 == SeqToSet(diff2)
    IN  IF EitherEmpty(set1, set2)
        THEN RZero
        ELSE Rat(Cardinality(set1 \cap set2), Cardinality(set1 \cup set2))

patch_similarity(patchA, patchB, file_weight, diff_weight) ==
    LET files_score == file_list_similarity(patchA.normalized_filenames,
                                            patchB.normalized_filenames)
        lines_score == diff_lines_similarity(patchA.normalized_diff_lines,
                                             patchB.normalized_diff_lines)
    IN  RAdd(RMul(file_weight, files_score), RMul(diff_weight, lines_score))

DefaultFileWeight ==
    Rat(3, 10)

DefaultDiffWeight ==
    Rat(7, 10)

DefaultThreshold ==
    Rat(7, 10)

\* compare_patches: <<similarity, matched>>
compare_patches(contentA, contentB, strip_levelA, strip_levelB, file_weight, diff_weight, threshold) ==
    LET normA == normalize_patch_content(contentA)
        normB == normalize_patch_content(contentB)
    IN  IF get_patch_hash(normA) = get_patch_hash(normB)
        THEN <<ROne, TRUE>>
        ELSE LET featuresA == extract_patch_features(normA, strip_levelA)
                 featuresB == extract_patch_features(normB, strip_levelB)
                 sim == patch_similarity(featuresA, featuresB, file_weight, diff_weight)
             IN  <<sim, RLeq(threshold, sim)>>

(***************************************************************************)
(* deb_rpm_patch_analyzer.py: the improved scorer                          *)
(***************************************************************************)
CommentPrefixes ==
    {<<"#">>, <<"/", "/">>, <<"/", "*">>, <<"*">>, <<"*", "/">>}

RECURSIVE normalize_patch_lines(_)
normalize_patch_lines(patch_lines) ==
    IF patch_lines = <<>>
    THEN <<>>
    ELSE LET line == Strip(Head(patch_lines))
         IN  IF line = <<>> \/ \E p \in CommentPrefixes : StartsWith(line, p)
             THEN normalize_patch_lines(Tail(patch_lines))
             ELSE <<line>> \o normalize_patch_lines(Tail(patch_lines))

\* the fuzzy path extract_fuzzy_paths takes from one header line
FuzzyPath(line) ==
    LET field    == SplitOn(line, "\t", <<>>, <<>>)[1]
        stripped == Strip(SubSeq(field, 5, Len(field)))
        path     == IF StartsWith(stripped, <<"a", "/">>) \/ StartsWith(stripped, <<"b", "/">>)
                    THEN SubSeq(stripped, 3, Len(stripped))
                    ELSE stripped
        parts    == SplitOn(path, "/", <<>>, <<>>)
    IN  IF Len(parts) >= 2
        THEN Join(SubSeq(parts, Len(parts) - 1, Len(parts)), <<"/">>)
        ELSE parts[Len(parts)]

extract_fuzzy_paths(patch_lines) ==
    {FuzzyPath(patch_lines[i]) :
        i \in {k \in 1..Len(patch_lines) : IsFileHeader(patch_lines[k])}}

AlnumChars ==
    SeqToSet(UpperChars) \cup SeqToSet(LowerChars) \cup
    {"0", "1", "2", "3", "4", "5", "6", "7", "8", "9", "_"}

\* tokenize_code: runs of alphanumeric characters are one token each, every
\* other non-blank character is a token of its own
RECURSIVE TokenizeLoop(_, _, _)
TokenizeLoop(s, cur, acc) ==
    LET flushed == IF cur = <<>> THEN acc ELSE Append(acc, cur)
    IN  IF s = <<>>
        THEN flushed
        ELSE IF Head(s) \in AlnumChars
             THEN TokenizeLoop(Tail(s), Append(cur, Head(s)), acc)
             ELSE IF Head(s) \in Whitespace
                  THEN TokenizeLoop(Tail(s), <<>>, flushed)
                  ELSE TokenizeLoop(Tail(s), <<>>, Append(flushed, <<Head(s)>>))

tokenize_code(line) ==
    TokenizeLoop(line, <<>>, <<>>)

NgramSize ==
    3

\* generate_ngrams: the set of contiguous token n-grams
generate_ngrams(tokens) ==
    {SubSeq(tokens, i, i + NgramSize - 1) : i \in 1..(Len(tokens) - NgramSize + 1)}

RECURSIVE FlattenTokens(_)
FlattenTokens(lines) ==
    IF lines = <<>> THEN <<>>
    ELSE tokenize_code(Head(lines)) \o FlattenTokens(Tail(lines))

IsAddedLine(line) ==
    StartsWith(line, <<"+">>) /\ ~StartsWith(line, <<"+", "+", "+">>)

IsRemovedLine(line) ==
    StartsWith(line, <<"-">>) /\ ~StartsWith(line, <<"-", "-", "-">>)

\* [line[1:].strip() for line in ...], for the lines the condition keeps
MarkedLines(kept) ==
    [i \in 1..Len(kept) |-> Strip(Tail(kept[i]))]

\* Jaccard index as computed for the n-gram sets and the path sets
NgramJaccard(s1, s2) ==
    IF s1 # {} \/ s2 # {}
    THEN IF Cardinality(s1 \cup s2) > 0
         THEN Rat(Cardinality(s1 \cap s2), Cardinality(s1 \cup s2))
         ELSE RZero
    ELSE RZero

(***************************************************************************)
(* difflib.SequenceMatcher(None, a, b).ratio() without junk (the automatic *)
(* junk heuristic needs a second sequence of 200 or more elements).        *)
(***************************************************************************)
\* length of the common run of a and b that starts at a[i], b[j] and stays
\* below ahi, bhi (exclusive upper ends)
RECURSIVE RunLen(_, _, _, _, _, _)
RunLen(a, b, i, j, ahi, bhi) ==
    IF i < ahi /\ j < bhi /\ a[i] = b[j]
    THEN 1 + RunLen(a, b, i + 1, j + 1, ahi, bhi)
    ELSE 0

\* find_longest_match: <<i, j, k>>, the longest block, of those the one
\* that starts earliest in a, of those the one that starts earliest in b
find_longest_match(a, b, alo, ahi, blo, bhi) ==
    LET rows  == alo..(ahi - 1)
        cols  == blo..(bhi - 1)
        len   == [i \in rows |-> [j \in cols |-> RunLen(a, b, i, j, ahi, bhi)]]
        sizes == {len[i][j] : i \in rows, j \in cols}
        bestsize == CHOOSE k \in sizes : \A o \in sizes : o <= k
        hasBest(i) == \E j \in cols : len[i][j] = bestsize
        besti == CHOOSE i \in rows : hasBest(i) /\ \A o \in alo..(i - 1) : ~hasBest(o)
        bestj == CHOOSE j \in cols :
                    /\ len[besti][j] = bestsize
                    /\ \A o \in blo..(j - 1) : len[besti][o] # bestsize
    IN  <<besti, bestj, bestsize>>

\* sum of the sizes of get_matching_blocks over a[alo..ahi), b[blo..bhi)
RECURSIVE MatchCount(_, _, _, _, _, _)
MatchCount(a, b, alo, ahi, blo, bhi) ==
    IF alo >= ahi \/ blo >= bhi
    THEN 0
    ELSE LET m == find_longest_match(a, b, alo, ahi, blo, bhi)
         IN  IF m[3] = 0
             THEN 0
             ELSE m[3] + MatchCount(a, b, alo, m[1], blo, m[2])
                       + MatchCount(a, b, m[1] + m[3], ahi, m[2] + m[3], bhi)

SequenceMatcherRatio(a, b) ==
    IF Len(a) + Len(b) = 0
    THEN ROne
    ELSE Rat(2 * MatchCount(a, b, 1, Len(a) + 1, 1, Len(b) + 1), Len(a) + Len(b))

PathWeight ==
    Rat(1, 10)

CodeWeight ==
    Rat(9, 10)

RHalf ==
    Rat(1, 2)

RawBlendMin ==
    Rat(8, 10)

\* a variant of CodeSimilarity: the removed lines do not count
CodeSimilarityAddedOnly(added_jaccard, removed_jaccard) ==
    added_jaccard

\* code_similarity = 0.5 * added_jaccard + 0.5 * removed_jaccard
CodeSimilarity(added_jaccard, removed_jaccard) ==
    RAdd(RMul(RHalf, added_jaccard), RMul(RHalf, removed_jaccard))

\* the terms calculate_patch_similarity_improved computes for two
\* non-empty patches
ImprovedTerms(patch1_lines, patch2_lines) ==
    LET paths1 == extract_fuzzy_paths(patch1_lines)
        paths2 == extract_fuzzy_paths(patch2_lines)
        added_ngrams1 ==
            generate_ngrams(FlattenTokens(MarkedLines(SelectSeq(patch1_lines, IsAddedLine))))
        removed_ngrams1 ==
            generate_ngrams(FlattenTokens(MarkedLines(SelectSeq(patch1_lines, IsRemovedLine))))
        added_ngrams2 ==
            generate_ngrams(FlattenTokens(MarkedLines(SelectSeq(patch2_lines, IsAddedLine))))
        removed_ngrams2 ==
            generate_ngrams(FlattenTokens(MarkedLines(SelectSeq(patch2_lines, IsRemovedLine))))
        normalized_patch1 == normalize_patch_lines(patch1_lines)
        normalized_patch2 == normalize_patch_lines(patch2_lines)
        added_jaccard   == NgramJaccard(added_ngrams1, added_ngrams2)
        removed_jaccard == NgramJaccard(removed_ngrams1, removed_ngrams2)
    IN  [path_similarity |-> NgramJaccard(paths1, paths2),
         added_jaccard   |-> added_jaccard,
         removed_jaccard |-> removed_jaccard,
         code_similarity |-> CodeSimilarity(added_jaccard, removed_jaccard),
         raw_similarity  |->
            IF normalized_patch1 # <<>> /\ normalized_patch2 # <<>>
            THEN SequenceMatcherRatio(Join(normalized_patch1, <<"\n">>),
                                      Join(normalized_patch2, <<"\n">>))
            ELSE RZero]

\* a variant of BlendScore: the raw similarity is added and the sum is not
\* halved
BlendScoreNoHalving(t) ==
    LET final_similarity ==
            RAdd(RMul(Rat(1, 10), t.path_similarity), RMul(Rat(9, 10), t.code_similarity))
    IN  IF RLt(t.code_similarity, Rat(1, 2)) /\ RLt(Rat(8, 10), t.raw_similarity)
        THEN RAdd(final_similarity, t.raw_similarity)
        ELSE final_similarity

\* a variant of BlendScore: the two tests of the blend are not strict
BlendScoreNotStrict(t) ==
    LET final_similarity ==
            RAdd(RMul(Rat(1, 10), t.path_similarity), RMul(Rat(9, 10), t.code_similarity))
    IN  IF RLeq(t.code_similarity, Rat(1, 2)) /\ RLeq(Rat(8, 10), t.raw_similarity)
        THEN RDiv2(RAdd(final_similarity, t.raw_similarity))
        ELSE final_similarity

\* the value returned from the terms: the weighted sum, blended with the
\* raw ratio when the code similarity is low and the raw ratio high
BlendScore(t) ==
    LET final_similarity ==
            RAdd(RMul(PathWeight, t.path_similarity), RMul(CodeWeight, t.code_similarity))
    IN  IF RLt(t.code_similarity, RHalf) /\ RLt(RawBlendMin, t.raw_similarity)
        THEN RDiv2(RAdd(final_similarity, t.raw_similarity))
        ELSE final_similarity

calculate_patch_similarity_improved(patch1_lines, patch2_lines) ==
    IF patch1_lines = <<>> \/ patch2_lines = <<>>
    THEN RZero
    ELSE BlendScore(ImprovedTerms(patch1_lines, patch2_lines))

(***************************************************************************)
(* Patch texts the scorers and matchers are run on.                        *)
(***************************************************************************)
\* one file, one removed and one added line
\*   --- a/x.c
\*   +++ b/x.c
\*   @@ -1 +1 @@
\*   -x y z
\*   +x y w
PatchFull ==
    <<
      <<"-", "-", "-", " ", "a", "/", "x", ".", "c">>,
      <<"+", "+", "+", " ", "b", "/", "x", ".", "c">>,
      <<"@", "@", " ", "-", "1", " ", "+", "1", " ", "@", "@">>,
      <<"-", "x", " ", "y", " ", "z">>,
      <<"+", "x", " ", "y", " ", "w">>
    >>

\* PatchFull at other hunk coordinates, with a line before the header
\*   Index: x
\*   --- a/x.c
\*   +++ b/x.c
\*   @@ -7 +7 @@
\*   -x y z
\*   +x y w
PatchShifted ==
    <<
      <<"I", "n", "d", "e", "x", ":", " ", "x">>,
      <<"-", "-", "-", " ", "a", "/", "x", ".", "c">>,
      <<"+", "+", "+", " ", "b", "/", "x", ".", "c">>,
      <<"@", "@", " ", "-", "7", " ", "+", "7", " ", "@", "@">>,
      <<"-", "x", " ", "y", " ", "z">>,
      <<"+", "x", " ", "y", " ", "w">>
    >>

\* a hunk that only adds a line and names no file
\*   @@ -1 +1 @@
\*   +x y w
PatchAddOnly ==
    <<
      <<"@", "@", " ", "-", "1", " ", "+", "1", " ", "@", "@">>,
      <<"+", "x", " ", "y", " ", "w">>
    >>

\* a hunk that only removes a line and names no file
\*   @@ -1 +1 @@
\*   -x y z
PatchRemoveOnly ==
    <<
      <<"@", "@", " ", "-", "1", " ", "+", "1", " ", "@", "@">>,
      <<"-", "x", " ", "y", " ", "z">>
    >>

\* PatchFull without its hunk marker line
\*   --- a/x.c
\*   +++ b/x.c
\*   -x y z
\*   +x y w
PatchNoHunk ==
    <<
      <<"-", "-", "-", " ", "a", "/", "x", ".", "c">>,
      <<"+", "+", "+", " ", "b", "/", "x", ".", "c">>,
      <<"-", "x", " ", "y", " ", "z">>,
      <<"+", "x", " ", "y", " ", "w">>
    >>

\* a text that is no diff
\*   xxxyx
PatchTextA ==
    <<
      <<"x", "x", "x", "y", "x">>
    >>

\* another text that is no diff
\*   xyxxyyx
PatchTextB ==
    <<
      <<"x", "y", "x", "x", "y", "y", "x">>
    >>

\* a second file header inside the hunk region
\*   @@ -1 +1 @@
\*   -x y z
\*   +x y w
\*   +++ b/y.c
\*   @@ -2 +2 @@
\*   +a b c
PatchTwoFiles ==
    <<
      <<"@", "@", " ", "-", "1", " ", "+", "1", " ", "@", "@">>,
      <<"-", "x", " ", "y", " ", "z">>,
      <<"+", "x", " ", "y", " ", "w">>,
      <<"+", "+", "+", " ", "b", "/", "y", ".", "c">>,
      <<"@", "@", " ", "-", "2", " ", "+", "2", " ", "@", "@">>,
      <<"+", "a", " ", "b", " ", "c">>
    >>

\* PatchFull with one more added line
\*   --- a/x.c
\*   +++ b/x.c
\*   @@ -1 +1 @@
\*   -x y z
\*   +x y w
\*   +a b c
PatchSimilar ==
    <<
      <<"-", "-", "-", " ", "a", "/", "x", ".", "c">>,
      <<"+", "+", "+", " ", "b", "/", "x", ".", "c">>,
      <<"@", "@", " ", "-", "1", " ", "+", "1", " ", "@", "@">>,
      <<"-", "x", " ", "y", " ", "z">>,
      <<"+", "x", " ", "y", " ", "w">>,
      <<"+", "a", " ", "b", " ", "c">>
    >>

\* an unrelated change to another file
\*   --- a/q.h
\*   +++ b/q.h
\*   @@ -3 +3 @@
\*   -p q r
\*   +s t u
PatchOther ==
    <<
      <<"-", "-", "-", " ", "a", "/", "q", ".", "h">>,
      <<"+", "+", "+", " ", "b", "/", "q", ".", "h">>,
      <<"@", "@", " ", "-", "3", " ", "+", "3", " ", "@", "@">>,
      <<"-", "p", " ", "q", " ", "r">>,
      <<"+", "s", " ", "t", " ", "u">>
    >>

\* PatchFull with the last token of both changed lines replaced
\*   --- a/x.c
\*   +++ b/x.c
\*   @@ -1 +1 @@
\*   -x y q
\*   +x y v
PatchRenamed ==
    <<
      <<"-", "-", "-", " ", "a", "/", "x", ".", "c">>,
      <<"+", "+", "+", " ", "b", "/", "x", ".", "c">>,
      <<"@", "@", " ", "-", "1", " ", "+", "1", " ", "@", "@">>,
      <<"-", "x", " ", "y", " ", "q">>,
      <<"+", "x", " ", "y", " ", "v">>
    >>

\* no lines at all
PatchEmpty ==
    <<>>

\* two removed and two added lines
\*   @@ -1 +1 @@
\*   -a
\*   -b
\*   +c
\*   +d
PatchFour ==
    <<
      <<"@", "@", " ", "-", "1", " ", "+", "1", " ", "@", "@">>,
      <<"-", "a">>,
      <<"-", "b">>,
      <<"+", "c">>,
      <<"+", "d">>
    >>

\* PatchFour at other hunk coordinates
\*   @@ -9 +9 @@
\*   -a
\*   -b
\*   +c
\*   +d
PatchFourShifted ==
    <<
      <<"@", "@", " ", "-", "9", " ", "+", "9", " ", "@", "@">>,
      <<"-", "a">>,
      <<"-", "b">>,
      <<"+", "c">>,
      <<"+", "d">>
    >>

\* PatchFour with a context line
\*   @@ -1 +1 @@
\*    k
\*   -a
\*   -b
\*   +c
\*   +d
PatchFourContext ==
    <<
      <<"@", "@", " ", "-", "1", " ", "+", "1", " ", "@", "@">>,
      <<" ", "k">>,
      <<"-", "a">>,
      <<"-", "b">>,
      <<"+", "c">>,
      <<"+", "d">>
    >>

\* PatchFour with one more added line
\*   @@ -1 +1 @@
\*   -a
\*   -b
\*   +c
\*   +d
\*   +e
PatchFive ==
    <<
      <<"@", "@", " ", "-", "1", " ", "+", "1", " ", "@", "@">>,
      <<"-", "a">>,
      <<"-", "b">>,
      <<"+", "c">>,
      <<"+", "d">>,
      <<"+", "e">>
    >>

\* PatchFive with one more added line
\*   @@ -1 +1 @@
\*   -a
\*   -b
\*   +c
\*   +d
\*   +e
\*   +f
PatchSix ==
    <<
      <<"@", "@", " ", "-", "1", " ", "+", "1", " ", "@", "@">>,
      <<"-", "a">>,
      <<"-", "b">>,
      <<"+", "c">>,
      <<"+", "d">>,
      <<"+", "e">>,
      <<"+", "f">>
    >>

\* PatchTwoFiles with the second file two directories deep
\*   @@ -1 +1 @@
\*   -x y z
\*   +x y w
\*   +++ b/src/lib/y.c
\*   @@ -2 +2 @@
\*   +a b c
PatchDeepPath ==
    <<
      <<"@", "@", " ", "-", "1", " ", "+", "1", " ", "@", "@">>,
      <<"-", "x", " ", "y", " ", "z">>,
      <<"+", "x", " ", "y", " ", "w">>,
      <<"+", "+", "+", " ", "b", "/", "s", "r", "c", "/", "l", "i", "b", "/", "y", ".", "c">>,
      <<"@", "@", " ", "-", "2", " ", "+", "2", " ", "@", "@">>,
      <<"+", "a", " ", "b", " ", "c">>
    >>

AllPatches ==
    <<PatchFull,
      PatchShifted,
      PatchAddOnly,
      PatchRemoveOnly,
      PatchNoHunk,
      PatchTextA,
      PatchTextB,
      PatchTwoFiles,
      PatchSimilar,
      PatchOther,
      PatchRenamed,
      PatchEmpty,
      PatchDeepPath,
      PatchFour,
      PatchFourShifted,
      PatchFourContext,
      PatchFive,
      PatchSix>>

(***************************************************************************)
(* State                                                                   *)
(***************************************************************************)
VARIABLES
    \* test_rpm_patch_analyzer.py, main: the comparison of one package pair
    fed_raw,        \* patch name -> what get_patch_file_content returns
    ope_raw,
    fed_contents,   \* patch name -> text, for the names that have content
    ope_contents,
    fed_left,       \* the remaining sets
    ope_left,
    common_list,
    similar_list,
    report,         \* report[pkg_key]
    pc,
    \* match_round: the loop positions
    src_todo,       \* elements of list(left_src) not visited yet
    cur_s,          \* the s of the running inner loop
    tgt_todo,       \* elements of list(left_tgt) not visited yet
    \* a repeated run on the same inputs
    run,
    first_report

fedVars ==
    <<fed_raw, ope_raw, fed_contents, ope_contents, fed_left, ope_left,
      common_list, similar_list, report, pc, src_todo, cur_s, tgt_todo,
      run, first_report>>

\* get_patch_file_content returns None or a list of lines; the callers only
\* test the value for truth, so None is represented by the empty list
NoContent ==
    <<>>

NoName ==
    ""

NoReport ==
    [error |-> "none"]

NumFed ==
    2

NumOpe ==
    2

FedNameSeq ==
    <<"f1.patch", "f2.patch", "f3.patch", "f4.patch">>

OpeNameSeq ==
    <<"o1.patch", "o2.patch", "o3.patch", "o4.patch">>

FedPool ==
    <<PatchFour, PatchFive, PatchNoHunk, NoContent>>

OpePool ==
    <<PatchFourShifted, PatchFourContext, PatchSix, NoContent>>

\* the collections of count patches with contents of the pool. The names
\* carry no meaning and match_round visits them in any order, so every
\* collection is given once, with its contents in the order of the pool
Collections(names, count, pool) ==
    LET ordered == {k \in [1..count -> 1..Len(pool)] :
                        \A i \in 1..(count - 1) : k[i] <= k[i + 1]}
        position(name) == CHOOSE i \in 1..count : names[i] = name
    IN  {[name \in {names[i] : i \in 1..count} |-> pool[k[position(name)]]] :
            k \in ordered}

(***************************************************************************)
(* test_rpm_patch_analyzer.py                                              *)
(***************************************************************************)
\* normalize_content: a list of lines becomes one text
normalize_content(content) ==
    Join(content, <<"\n">>)

\* round(x, digits) for scale = 10^digits: the nearest multiple of 1/scale,
\* ties to the even one
RoundTo(x, scale) ==
    LET q == (x[1] * scale) \div x[2]
        r == (x[1] * scale) % x[2]
    IN  IF 2 * r < x[2] THEN Rat(q, scale)
        ELSE IF 2 * r > x[2] THEN Rat(q + 1, scale)
        ELSE IF q % 2 = 0 THEN Rat(q, scale) ELSE Rat(q + 1, scale)

\* extract_diff_lines_only: the added and removed lines of a normalized patch
extract_diff_lines_only(normalized_content) ==
    SelectSeq(normalized_content, IsDiffLine)

\* compare_patches_by_diff_only: <<similarity, matched>>; equal fingerprints
\* are an exact match, otherwise the diff lines alone are scored
compare_patches_by_diff_only(contentA, contentB, threshold) ==
    LET normA == normalize_patch_text(contentA)
        normB == normalize_patch_text(contentB)
    IN  IF get_patch_hash(normA) = get_patch_hash(normB)
        THEN <<ROne, TRUE>>
        ELSE LET sim == diff_lines_similarity(extract_diff_lines_only(normA),
                                              extract_diff_lines_only(normB))
             IN  <<sim, RLeq(threshold, sim)>>

ExactThreshold ==
    ROne

SimilarThreshold ==
    Rat(8, 10)

\* the threshold of the round that is running
RoundThreshold ==
    IF pc = "round_common" THEN ExactThreshold ELSE SimilarThreshold

InRound ==
    pc \in {"round_common", "round_sim"}

\* a variant of FirstCall: main starts with the round of threshold 0.8
FirstCallSimilar ==
    "call_sim"

\* main calls match_round for the exact round first
FirstCall ==
    "call_common"

\* main, lines 178-210: keep the patches that have content, start the
\* remaining sets and the result lists
LoadContents ==
    /\ pc = "load"
    /\ fed_contents' = [n \in {m \in DOMAIN fed_raw : fed_raw[m] # <<>>} |->
                            normalize_content(fed_raw[n])]
    /\ ope_contents' = [n \in {m \in DOMAIN ope_raw : ope_raw[m] # <<>>} |->
                            normalize_content(ope_raw[n])]
    /\ fed_left' = {m \in DOMAIN fed_raw : fed_raw[m] # <<>>}
    /\ ope_left' = {m \in DOMAIN ope_raw : ope_raw[m] # <<>>}
    /\ common_list' = <<>>
    /\ similar_list' = <<>>
    /\ pc' = FirstCall
    /\ UNCHANGED <<fed_raw, ope_raw, report, src_todo, cur_s, tgt_todo, run, first_report>>

\* match_round is entered: the outer loop runs over a copy of left_src
MatchRoundBegin ==
    /\ pc \in {"call_common", "call_sim"}
    /\ pc' = IF pc = "call_common" THEN "round_common" ELSE "round_sim"
    /\ src_todo' = fed_left
    /\ cur_s' = NoName
    /\ tgt_todo' = {}
    /\ UNCHANGED <<fed_raw, ope_raw, fed_contents, ope_contents, fed_left, ope_left,
                   common_list, similar_list, report, run, first_report>>

\* the outer loop takes its next s (in the order the set happens to have)
\* and the inner loop starts over a copy of left_tgt
NextSrc ==
    /\ InRound
    /\ cur_s = NoName \/ tgt_todo = {}
    /\ \E s \in src_todo :
        /\ cur_s' = s
        /\ src_todo' = src_todo \ {s}
    /\ tgt_todo' = ope_left
    /\ UNCHANGED <<fed_raw, ope_raw, fed_contents, ope_contents, fed_left, ope_left,
                   common_list, similar_list, report, pc, run, first_report>>

\* a variant of RemainingAfterMatch: the matched name is not removed
RemainingKept(left, name) ==
    left

\* left_src.remove(s), left_tgt.remove(t)
RemainingAfterMatch(left, name) ==
    left \ {name}

\* the entry match_round appends for a pair that passed
MatchRecord(s, t, sim) ==
    [fedora |-> s, openeuler |-> t, similarity |-> RoundTo(sim, 1000)]

\* one iteration of the inner loop: s is compared with the next t; a pair
\* that passes is recorded, both leave the remaining sets, the loop breaks
CompareStep ==
    /\ InRound
    /\ cur_s # NoName
    /\ \E t \in tgt_todo :
        LET cmp == compare_patches_by_diff_only(fed_contents[cur_s], ope_contents[t],
                                                RoundThreshold)
        IN  IF cmp[2]
            THEN /\ IF pc = "round_common"
                    THEN /\ common_list' = Append(common_list, MatchRecord(cur_s, t, cmp[1]))
                         /\ UNCHANGED similar_list
                    ELSE /\ similar_list' = Append(similar_list, MatchRecord(cur_s, t, cmp[1]))
                         /\ UNCHANGED common_list
                 /\ fed_left' = RemainingAfterMatch(fed_left, cur_s)
                 /\ ope_left' = RemainingAfterMatch(ope_left, t)
                 /\ cur_s' = NoName
                 /\ tgt_todo' = {}
            ELSE /\ tgt_todo' = tgt_todo \ {t}
                 /\ UNCHANGED <<fed_left, ope_left, common_list, similar_list, cur_s>>
    /\ UNCHANGED <<fed_raw, ope_raw, fed_contents, ope_contents, report, pc, src_todo,
                   run, first_report>>

\* a variant of MatchRoundEnd: the round may return before the outer loop
\* has visited every remaining patch
MatchRoundEndEarly ==
    /\ InRound
    /\ cur_s = NoName \/ tgt_todo = {}
    /\ pc' = IF pc = "round_common" THEN "call_sim" ELSE "leftover"
    /\ cur_s' = NoName
    /\ tgt_todo' = {}
    /\ src_todo' = {}
    /\ UNCHANGED <<fed_raw, ope_raw, fed_contents, ope_contents, fed_left, ope_left,
                   common_list, similar_list, report, run, first_report>>

\* match_round returns when the outer loop is through
MatchRoundEnd ==
    /\ InRound
    /\ src_todo = {}
    /\ cur_s = NoName \/ tgt_todo = {}
    /\ pc' = IF pc = "round_common" THEN "call_sim" ELSE "leftover"
    /\ cur_s' = NoName
    /\ tgt_todo' = {}
    /\ UNCHANGED <<fed_raw, ope_raw, fed_contents, ope_contents, fed_left, ope_left,
                   common_list, similar_list, report, src_todo, run, first_report>>

\* main, lines 214-227: what is left becomes the unique lists (their order
\* is the order of a set and is not kept here)
WriteReport ==
    /\ pc = "leftover"
    /\ report' = [common_patches |-> common_list,
                  same_function_different_content |-> similar_list,
                  unique_fedora_patches |-> fed_left,
                  unique_openeuler_patches |-> ope_left,
                  fedora_patch_count |-> Cardinality(DOMAIN fed_contents),
                  openeuler_patch_count |-> Cardinality(DOMAIN ope_contents)]
    /\ pc' = "done"
    /\ UNCHANGED <<fed_raw, ope_raw, fed_contents, ope_contents, fed_left, ope_left,
                   common_list, similar_list, src_todo, cur_s, tgt_todo, run, first_report>>

\* the same inputs are compared once more; the first report is kept
RunAgain ==
    /\ pc = "done"
    /\ run = 1
    /\ run' = run + 1
    /\ first_report' = report
    /\ report' = NoReport
    /\ pc' = "load"
    /\ UNCHANGED <<fed_raw, ope_raw, fed_contents, ope_contents, fed_left, ope_left,
                   common_list, similar_list, src_todo, cur_s, tgt_todo>>

(***************************************************************************)
(* deb_rpm_patch_analyzer.py: compare_fedora_debian_patches                *)
(***************************************************************************)
VARIABLES
    fedora_patches,         \* list of the Fedora patch file names
    debian_patches,         \* get_debian_patch_names(...)
    fedora_files,           \* name -> get_patch_file_content("Fedora", name, ...)
    debian_files,           \* name -> get_debian_patch_file_content(name, ...)
    matched_patches,        \* dict: Fedora name -> debian_patch, similarity
    same_function_patches,
    processed_patches,
    unmatched_fedora,
    unmatched_debian,
    f_idx,                  \* position of the outer loop in fedora_patches
    d_idx,                  \* position of the inner loop in debian_patches
    dpc

debVars ==
    <<fedora_patches, debian_patches, fedora_files, debian_files, matched_patches,
      same_function_patches, processed_patches, unmatched_fedora, unmatched_debian,
      f_idx, d_idx, dpc>>

NumFedoraPatches ==
    2

NumDebianPatches ==
    2

FedoraNameSeq ==
    <<"fa.patch", "fb.patch", "fc.patch", "fd.patch">>

DebianNameSeq ==
    <<"da.patch", "db.patch", "dc.patch", "dd.patch">>

FedoraFilePool ==
    {PatchFull, PatchNoHunk, PatchOther, PatchAddOnly, NoContent}

DebianFilePool ==
    {PatchShifted, PatchSimilar, PatchTwoFiles, NoContent}

MaxPatchLines ==
    10000

MinPatchLines ==
    3

\* thresholds = [0.7, 0.6, 0.5]
thresholds ==
    <<Rat(7, 10), Rat(6, 10), Rat(5, 10)>>

\* the calls of calculate_patch_similarity_improved the loop can make on the
\* files at hand, each evaluated once: <<fedora_content, debian_content, result>>
ImprovedCalls ==
    {<<f, d, calculate_patch_similarity_improved(f, d)>> :
        f \in FedoraFilePool, d \in DebianFilePool}

\* the result of calculate_patch_similarity_improved(fedora_content, debian_content)
ImprovedSimilarity(fedora_content, debian_content) ==
    (CHOOSE c \in ImprovedCalls : c[1] = fedora_content /\ c[2] = debian_content)[3]

\* lines 343-350: no Debian patch names gives the early return, otherwise
\* the result containers start empty
DebBegin ==
    /\ dpc = "start"
    /\ IF debian_patches = <<>>
       THEN /\ unmatched_fedora' = fedora_patches
            /\ dpc' = "done"
       ELSE /\ dpc' = "outer"
            /\ UNCHANGED unmatched_fedora
    /\ UNCHANGED <<fedora_patches, debian_patches, fedora_files, debian_files,
                   matched_patches, same_function_patches, processed_patches,
                   unmatched_debian, f_idx, d_idx>>

\* lines 352-361: the next Fedora patch; without content (or too large) it
\* is passed over
FedoraStep ==
    /\ dpc = "outer"
    /\ f_idx <= Len(fedora_patches)
    /\ LET f_content == fedora_files[fedora_patches[f_idx]]
       IN  IF f_content = <<>> \/ Len(f_content) > MaxPatchLines
           THEN /\ f_idx' = f_idx + 1
                /\ UNCHANGED <<d_idx, dpc>>
           ELSE /\ d_idx' = 1
                /\ dpc' = "inner"
                /\ UNCHANGED f_idx
    /\ UNCHANGED <<fedora_patches, debian_patches, fedora_files, debian_files,
                   matched_patches, same_function_patches, processed_patches,
                   unmatched_fedora, unmatched_debian>>

\* f"{similarity:.2f}": the text is represented by the number it denotes
FormatSimilarity(similarity) ==
    RoundTo(similarity, 100)

\* lines 383-398: what one scored pair does to the two result containers,
\* <<matched_patches, same_function_patches>>
Classify(matched, same_function, f_patch, d_patch, similarity) ==
    IF similarity = ROne
    THEN IF f_patch \notin DOMAIN matched
         THEN <<[n \in DOMAIN matched \cup {f_patch} |->
                    IF n = f_patch
                    THEN [debian_patch |-> d_patch, similarity |-> similarity]
                    ELSE matched[n]],
                same_function>>
         ELSE <<matched, same_function>>
    ELSE IF \E k \in 1..Len(thresholds) : RLeq(thresholds[k], similarity)
         THEN <<matched,
                Append(same_function,
                       [Fedora |-> f_patch, Debian |-> d_patch,
                        Similarity |-> FormatSimilarity(similarity)])>>
         ELSE <<matched, same_function>>

\* lines 363-400: one iteration of the inner loop
DebianStep ==
    /\ dpc = "inner"
    /\ d_idx <= Len(debian_patches)
    /\ LET f_patch   == fedora_patches[f_idx]
           d_patch   == debian_patches[d_idx]
           f_content == fedora_files[f_patch]
           d_content == debian_files[d_patch]
           skipped   == \/ <<f_patch, d_patch>> \in processed_patches
                        \/ d_content = <<>>
                        \/ Len(d_content) > MaxPatchLines
                        \/ Len(f_content) < MinPatchLines
                        \/ Len(d_content) < MinPatchLines
       IN  IF skipped
           THEN UNCHANGED <<matched_patches, same_function_patches, processed_patches>>
           ELSE LET similarity == ImprovedSimilarity(f_content, d_content)
                    res == Classify(matched_patches, same_function_patches,
                                    f_patch, d_patch, similarity)
                IN  /\ processed_patches' = processed_patches \cup {<<f_patch, d_patch>>}
                    /\ matched_patches' = res[1]
                    /\ same_function_patches' = res[2]
    /\ IF d_idx = Len(debian_patches)
       THEN /\ f_idx' = f_idx + 1
            /\ dpc' = "outer"
            /\ UNCHANGED d_idx
       ELSE /\ d_idx' = d_idx + 1
            /\ UNCHANGED <<f_idx, dpc>>
    /\ UNCHANGED <<fedora_patches, debian_patches, fedora_files, debian_files,
                   unmatched_fedora, unmatched_debian>>

\* a variant of BestEntry: the first entry of the Fedora patch is kept
BestEntryFirst(same_function, f, best) ==
    <<same_function[CHOOSE i \in 1..Len(same_function) :
        /\ same_function[i].Fedora = f
        /\ \A j \in 1..(i - 1) : same_function[j].Fedora # f]>>

\* lines 402-407: the entry func_best holds for Fedora patch f after the
\* loop over same_function: the first one of the highest similarity
RECURSIVE BestEntry(_, _, _)
BestEntry(same_function, f, best) ==
    IF same_function = <<>>
    THEN best
    ELSE LET patch == Head(same_function)
         IN  IF patch.Fedora = f /\ (best = <<>> \/ RLt(best[1].Similarity, patch.Similarity))
             THEN BestEntry(Tail(same_function), f, <<patch>>)
             ELSE BestEntry(Tail(same_function), f, best)

\* the keys of func_best in insertion order
RECURSIVE FirstSeen(_, _)
FirstSeen(same_function, seen) ==
    IF same_function = <<>>
    THEN <<>>
    ELSE IF Head(same_function).Fedora \in seen
         THEN FirstSeen(Tail(same_function), seen)
         ELSE <<Head(same_function).Fedora>> \o
              FirstSeen(Tail(same_function), seen \cup {Head(same_function).Fedora})

\* lines 402-408: list(func_best.values())
BestPerFedora(same_function) ==
    LET keys == FirstSeen(same_function, {})
    IN  [i \in 1..Len(keys) |-> BestEntry(same_function, keys[i], <<>>)[1]]

\* a variant of DebPostProcess: the Debian names of the similar entries are
\* collected before the entries are reduced to the best one per Fedora patch
DebPostProcessEarlyLists ==
    /\ dpc = "outer"
    /\ f_idx > Len(fedora_patches)
    /\ LET best == BestPerFedora(same_function_patches)
           matched_fedora == DOMAIN matched_patches
           matched_debian == {matched_patches[f].debian_patch : f \in DOMAIN matched_patches}
           same_function_fedora == {best[i].Fedora : i \in 1..Len(best)}
           same_function_debian ==
               {same_function_patches[i].Debian : i \in 1..Len(same_function_patches)}
       IN  /\ same_function_patches' = best
           /\ unmatched_fedora' =
                SelectSeq(fedora_patches,
                          LAMBDA p : p \notin matched_fedora /\ p \notin same_function_fedora)
           /\ unmatched_debian' =
                SelectSeq(debian_patches,
                          LAMBDA p : p \notin matched_debian /\ p \notin same_function_debian)
    /\ dpc' = "done"
    /\ UNCHANGED <<fedora_patches, debian_patches, fedora_files, debian_files,
                   matched_patches, processed_patches, f_idx, d_idx>>

\* lines 402-418: one similar entry per Fedora patch, then the two lists of
\* the patches that are in neither result container
DebPostProcess ==
    /\ dpc = "outer"
    /\ f_idx > Len(fedora_patches)
    /\ LET best == BestPerFedora(same_function_patches)
           matched_fedora == DOMAIN matched_patches
           matched_debian == {matched_patches[f].debian_patch : f \in DOMAIN matched_patches}
           same_function_fedora == {best[i].Fedora : i \in 1..Len(best)}
           same_function_debian == {best[i].Debian : i \in 1..Len(best)}
       IN  /\ same_function_patches' = best
           /\ unmatched_fedora' =
                SelectSeq(fedora_patches,
                          LAMBDA p : p \notin matched_fedora /\ p \notin same_function_fedora)
           /\ unmatched_debian' =
                SelectSeq(debian_patches,
                          LAMBDA p : p \notin matched_debian /\ p \notin same_function_debian)
    /\ dpc' = "done"
    /\ UNCHANGED <<fedora_patches, debian_patches, fedora_files, debian_files,
                   matched_patches, processed_patches, f_idx, d_idx>>

(***************************************************************************)
(* normalize_patch_content applied to one input                            *)
(***************************************************************************)
VARIABLES
    patch_content,  \* the argument: a list of lines or one string
    is_list,        \* isinstance(patch_content, list)
    normalized,     \* what the call returned or raised
    features,       \* extract_patch_features(normalized), as compare_patches calls it
    npc

normVars ==
    <<patch_content, is_list, normalized, features, npc>>

\* the threshold argument of compare_patches and of
\* compare_fedora_debian_patches
VARIABLES
    threshold

\* calculate_patch_similarity_improved from line 685 on: the locals that
\* hold the terms, and the value returned
VARIABLES
    path_sets,          \* <<paths1, paths2>>
    added_term,         \* added_jaccard
    removed_term,       \* removed_jaccard
    raw_term,           \* raw_similarity
    returned_score,     \* final_similarity as returned
    bpc

blendVars ==
    <<path_sets, added_term, removed_term, raw_term,
      returned_score, bpc>>

\* the body of main's loop run for several packages at once
VARIABLES
    calls,      \* package -> the locals of its run
    reports     \* report[pkg_key]

concVars ==
    <<calls, reports>>

\* analyze_fedora_debian_patches: the comparison by raw content
VARIABLES
    deb_texts,      \* position in debian_patches -> get_patch_content(...)
    fed_texts,      \* position in fedora_patches -> get_patch_content(...)
    analysis,       \* the dict named result
    deb_i,          \* position of the loop over result["debian_patches"]
    apc

rawVars ==
    <<deb_texts, fed_texts, analysis, deb_i, apc>>

\* replace_macros_with_values
VARIABLES
    text,
    defines,
    iteration,
    mpc

macroVars ==
    <<text, defines, iteration, mpc>>

auxVars ==
    <<normVars, threshold, blendVars, concVars, rawVars, macroVars>>

\* no value returned yet
NoScore ==
    <<>>

\* values of extract_fuzzy_paths
PathSets ==
    SUBSET {"x.c", "y.h"}

\* values of a Jaccard index of n-gram sets of up to ten n-grams
JaccardValues ==
    {Rat(k, 10) : k \in 0..10}

\* values of SequenceMatcher.ratio()
RatioValues ==
    {Rat(k, 20) : k \in 0..20}

\* lines 685-698: the code similarity, the weighted sum, the blend
CallBlend ==
    /\ bpc = "call"
    /\ returned_score' =
            BlendScore([path_similarity |-> NgramJaccard(path_sets[1], path_sets[2]),
                        code_similarity |-> CodeSimilarity(added_term, removed_term),
                        raw_similarity  |-> raw_term])
    /\ bpc' = "returned"
    /\ UNCHANGED <<normVars, threshold, concVars, rawVars, macroVars, path_sets, added_term,
                   removed_term, raw_term>>

\* the thresholds a caller passes: the default and one outside [0, 1]
ThresholdArgs ==
    {DefaultThreshold, Rat(3, 2)}

\* a hunk-marker line
LineHunk ==
    <<"@", "@", " ", "-", "1", " ", "+", "1", " ", "@", "@">>

\* a file header
LineHeader ==
    <<"-", "-", "-", " ", "a", "/", "x", ".", "c">>

\* a header prefix with nothing behind it
LineBareHeader ==
    <<"+", "+", "+", " ">>

\* a header with spaces around it, a carriage return and a doubled a/ b/ prefix
LinePaddedHeader ==
    <<" ", "+", "+", "+", " ", "b", "/", "a", "/", "y", ".", "h", "\r">>

\* an empty line
LineEmpty ==
    <<>>

\* an added line ending in a carriage return
LineAddedCR ==
    <<"+", "x", "\r">>

\* two at signs without the space of a hunk marker
LineNoMarker ==
    <<"@", "@">>

\* a header prefix followed by a tab only
LineHeaderTab ==
    <<"-", "-", "-", " ", "\t">>

\* a header whose path is followed by a tab and a timestamp
LineHeaderStamp ==
    <<"-", "-", "-", " ", "a", "/", "x", ".", "c", "\t", "2", "0", "2", "4">>

\* a context line (first column blank) whose text begins with a dash
LineContextDash ==
    <<" ", "-", " ", "x">>

NormLines ==
    {LineHunk, LineHeader, LineBareHeader, LinePaddedHeader,
     LineEmpty, LineAddedCR, LineNoMarker, LineHeaderTab,
     LineHeaderStamp, LineContextDash}

MaxNormLines ==
    2

\* the lists of at most MaxNormLines of these lines
NormInputs ==
    UNION {[1..n -> NormLines] : n \in 0..MaxNormLines}

\* clean_line.split()[-1] raises IndexError when split() returns no token
HeaderRaises(line) ==
    LET clean_line == Strip(RemoveChar(line, "\r"))
    IN  /\ StartsWith(clean_line, MinusHeader) \/ StartsWith(clean_line, PlusHeader)
        /\ SplitWs(clean_line, <<>>, <<>>) = <<>>

\* the loop of normalize_patch_content reaches a line that raises
RECURSIVE NormalizeRaises(_, _)
NormalizeRaises(lines, in_hunk) ==
    IF lines = <<>>
    THEN FALSE
    ELSE IF StartsWith(Head(lines), HunkMarker)
         THEN NormalizeRaises(Tail(lines), TRUE)
         ELSE \/ in_hunk /\ HeaderRaises(Head(lines))
              \/ NormalizeRaises(Tail(lines), in_hunk)

\* normalize_patch_content(patch_content): the list it returns, or the
\* exception that leaves it
CallNormalize ==
    /\ npc = "call"
    /\ LET lines == IF is_list
                    THEN patch_content
                    ELSE SplitLines(patch_content, <<>>, <<>>)
       IN  /\ normalized' = IF NormalizeRaises(lines, FALSE)
                            THEN <<"IndexError">>
                            ELSE <<"list", NormalizeLoop(lines, FALSE, <<>>)>>
           /\ features' = IF NormalizeRaises(lines, FALSE)
                          THEN <<>>
                          ELSE <<extract_patch_features(
                                     NormalizeLoop(lines, FALSE, <<>>), 0)>>
    /\ npc' = "returned"
    /\ UNCHANGED <<patch_content, is_list, threshold, blendVars, concVars,
                   rawVars, macroVars>>

(***************************************************************************)
(* test_rpm_patch_analyzer.py: the comparisons of several packages, their  *)
(* steps interleaved                                                       *)
(***************************************************************************)
Pkgs ==
    {"pkgA", "pkgB"}

\* the patches of one package: one Fedora patch and two openEuler patches
ConcInputs ==
    {<<f, o>> : f \in Collections(FedNameSeq, 1, <<PatchFour, PatchFive, NoContent>>),
                o \in Collections(OpeNameSeq, 2, <<PatchFourShifted, PatchSix, NoContent>>)}

\* a variant of LocalsOf: one binding of the remaining sets and the result
\* lists serves every run
LocalsShared(p) ==
    "pkgA"

\* fed_left, ope_left, common_list and similar_list are bound anew in each
\* run of the loop body: the run of package p works on its own
LocalsOf(p) ==
    p

ConcRoundThreshold(p) ==
    IF calls[p].pc = "round_common" THEN ExactThreshold ELSE SimilarThreshold

ConcInRound(p) ==
    calls[p].pc \in {"round_common", "round_sim"}

\* main, lines 178-210, for package p
ConcLoad(p) ==
    /\ calls[p].pc = "load"
    /\ LET fed == {m \in DOMAIN calls[p].fed_raw : calls[p].fed_raw[m] # <<>>}
           ope == {m \in DOMAIN calls[p].ope_raw : calls[p].ope_raw[m] # <<>>}
       IN  calls' = [calls EXCEPT
                ![p].fed_contents = [n \in fed |-> normalize_content(calls[p].fed_raw[n])],
                ![p].ope_contents = [n \in ope |-> normalize_content(calls[p].ope_raw[n])],
                ![LocalsOf(p)].fed_left = fed,
                ![LocalsOf(p)].ope_left = ope,
                ![LocalsOf(p)].common_list = <<>>,
                ![LocalsOf(p)].similar_list = <<>>,
                ![p].pc = FirstCall]
    /\ UNCHANGED reports

\* match_round is entered by the run of package p
ConcRoundBegin(p) ==
    /\ calls[p].pc \in {"call_common", "call_sim"}
    /\ calls' = [calls EXCEPT
            ![p].pc = IF calls[p].pc = "call_common" THEN "round_common" ELSE "round_sim",
            ![p].src_todo = calls[LocalsOf(p)].fed_left,
            ![p].cur_s = NoName,
            ![p].tgt_todo = {}]
    /\ UNCHANGED reports

ConcNextSrc(p) ==
    /\ ConcInRound(p)
    /\ calls[p].cur_s = NoName \/ calls[p].tgt_todo = {}
    /\ \E s \in calls[p].src_todo :
        calls' = [calls EXCEPT
            ![p].cur_s = s,
            ![p].src_todo = calls[p].src_todo \ {s},
            ![p].tgt_todo = calls[LocalsOf(p)].ope_left]
    /\ UNCHANGED reports

\* one iteration of the inner loop; src_dict[s], tgt_dict[t] and
\* set.remove raise KeyError for a name that is not there, which ends the
\* run of the package in the except clause of main
ConcCompare(p) ==
    /\ ConcInRound(p)
    /\ calls[p].cur_s # NoName
    /\ \E t \in calls[p].tgt_todo :
        LET s == calls[p].cur_s
            own == LocalsOf(p)
        IN  IF s \notin DOMAIN calls[p].fed_contents \/ t \notin DOMAIN calls[p].ope_contents
            THEN calls' = [calls EXCEPT ![p].pc = "KeyError"]
            ELSE LET cmp == compare_patches_by_diff_only(calls[p].fed_contents[s],
                                                         calls[p].ope_contents[t],
                                                         ConcRoundThreshold(p))
                 IN  IF ~cmp[2]
                     THEN calls' = [calls EXCEPT ![p].tgt_todo = calls[p].tgt_todo \ {t}]
                     ELSE IF s \notin calls[own].fed_left \/ t \notin calls[own].ope_left
                     THEN calls' = [calls EXCEPT
                            ![own].common_list =
                                IF calls[p].pc = "round_common"
                                THEN Append(calls[own].common_list, MatchRecord(s, t, cmp[1]))
                                ELSE calls[own].common_list,
                            ![own].similar_list =
                                IF calls[p].pc = "round_common"
                                THEN calls[own].similar_list
                                ELSE Append(calls[own].similar_list, MatchRecord(s, t, cmp[1])),
                            ![own].fed_left = RemainingAfterMatch(calls[own].fed_left, s),
                            ![p].pc = "KeyError"]
                     ELSE calls' = [calls EXCEPT
                            ![own].common_list =
                                IF calls[p].pc = "round_common"
                                THEN Append(calls[own].common_list, MatchRecord(s, t, cmp[1]))
                                ELSE calls[own].common_list,
                            ![own].similar_list =
                                IF calls[p].pc = "round_common"
                                THEN calls[own].similar_list
                                ELSE Append(calls[own].similar_list, MatchRecord(s, t, cmp[1])),
                            ![own].fed_left = RemainingAfterMatch(calls[own].fed_left, s),
                            ![own].ope_left = RemainingAfterMatch(calls[own].ope_left, t),
                            ![p].cur_s = NoName,
                            ![p].tgt_todo = {}]
    /\ UNCHANGED reports

ConcRoundEnd(p) ==
    /\ ConcInRound(p)
    /\ calls[p].src_todo = {}
    /\ calls[p].cur_s = NoName \/ calls[p].tgt_todo = {}
    /\ calls' = [calls EXCEPT
            ![p].pc = IF calls[p].pc = "round_common" THEN "call_sim" ELSE "leftover",
            ![p].cur_s = NoName,
            ![p].tgt_todo = {}]
    /\ UNCHANGED reports

\* main, lines 214-227: report[pkg_key] = {...}
ConcWriteReport(p) ==
    /\ calls[p].pc = "leftover"
    /\ reports' = [reports EXCEPT ![p] =
            [common_patches |-> calls[LocalsOf(p)].common_list,
             same_function_different_content |-> calls[LocalsOf(p)].similar_list,
             unique_fedora_patches |-> calls[LocalsOf(p)].fed_left,
             unique_openeuler_patches |-> calls[LocalsOf(p)].ope_left,
             fedora_patch_count |-> Cardinality(DOMAIN calls[p].fed_contents),
             openeuler_patch_count |-> Cardinality(DOMAIN calls[p].ope_contents)]]
    /\ calls' = [calls EXCEPT ![p].pc = "done"]

\* what match_round can leave when the names of todo are still to be
\* visited: <<left_src, left_tgt, record>>, for every order of the two lists
RECURSIVE RoundOutcomes(_, _, _, _, _, _, _)
RoundOutcomes(todo, left_src, left_tgt, record, round_threshold, src_dict, tgt_dict) ==
    IF todo = {}
    THEN {<<left_src, left_tgt, record>>}
    ELSE UNION {
            LET hits == {t \in left_tgt :
                            compare_patches_by_diff_only(src_dict[s], tgt_dict[t],
                                                         round_threshold)[2]}
            IN  IF hits = {}
                THEN RoundOutcomes(todo \ {s}, left_src, left_tgt, record,
                                   round_threshold, src_dict, tgt_dict)
                ELSE UNION {
                        RoundOutcomes(todo \ {s},
                                      RemainingAfterMatch(left_src, s),
                                      RemainingAfterMatch(left_tgt, t),
                                      Append(record, MatchRecord(s, t,
                                          compare_patches_by_diff_only(src_dict[s], tgt_dict[t],
                                                                       round_threshold)[1])),
                                      round_threshold, src_dict, tgt_dict) : t \in hits}
            : s \in todo}

\* the reports the comparison of one package can give when it runs alone
SoloReports(src_dict, tgt_dict) ==
    UNION {
        {[common_patches |-> c[3],
          same_function_different_content |-> r[3],
          unique_fedora_patches |-> r[1],
          unique_openeuler_patches |-> r[2],
          fedora_patch_count |-> Cardinality(DOMAIN src_dict),
          openeuler_patch_count |-> Cardinality(DOMAIN tgt_dict)] :
            r \in RoundOutcomes(c[1], c[1], c[2], <<>>, SimilarThreshold, src_dict, tgt_dict)}
        : c \in RoundOutcomes(DOMAIN src_dict, DOMAIN src_dict, DOMAIN tgt_dict, <<>>,
                              ExactThreshold, src_dict, tgt_dict)}

(***************************************************************************)
(* The scorers applied to one pair of patches                              *)
(***************************************************************************)
VARIABLES
    call,           \* the function that is applied
    contentA,
    contentB,
    strip_levelA,
    strip_levelB,
    result,         \* what the call returned for (A, B)
    swapped         \* what it returned for (B, A)

scoreVars ==
    <<call, contentA, contentB, strip_levelA, strip_levelB, result, swapped>>

vars ==
    <<fedVars, debVars, scoreVars, auxVars>>

NumScorePatches ==
    13

MaxStripLevel ==
    1

ScorePatches ==
    {AllPatches[i] : i \in 1..NumScorePatches}

NoResult ==
    <<>>

\* compare_patches(contentA, contentB, strip_levelA, strip_levelB) with the
\* default weights and threshold, and the call with the sides exchanged
CallComparePatches ==
    /\ call = "compare_patches"
    /\ result = NoResult
    /\ result' = compare_patches(contentA, contentB, strip_levelA, strip_levelB,
                                 DefaultFileWeight, DefaultDiffWeight, threshold)
    /\ swapped' = compare_patches(contentB, contentA, strip_levelB, strip_levelA,
                                  DefaultFileWeight, DefaultDiffWeight, threshold)
    /\ UNCHANGED <<fedVars, debVars, auxVars, call, contentA, contentB, strip_levelA, strip_levelB>>

\* patch_similarity on the features of the two normalized patches, as
\* compare_patches calls it when the fingerprints differ
CallPatchSimilarity ==
    /\ call = "patch_similarity"
    /\ result = NoResult
    /\ LET fA == extract_patch_features(normalize_patch_content(contentA), strip_levelA)
           fB == extract_patch_features(normalize_patch_content(contentB), strip_levelB)
       IN  /\ result' = <<patch_similarity(fA, fB, DefaultFileWeight, DefaultDiffWeight)>>
           /\ swapped' = <<patch_similarity(fB, fA, DefaultFileWeight, DefaultDiffWeight)>>
    /\ UNCHANGED <<fedVars, debVars, auxVars, call, contentA, contentB, strip_levelA, strip_levelB>>

CallImproved ==
    /\ call = "calculate_patch_similarity_improved"
    /\ result = NoResult
    /\ result' = <<calculate_patch_similarity_improved(contentA, contentB)>>
    /\ swapped' = <<calculate_patch_similarity_improved(contentB, contentA)>>
    /\ UNCHANGED <<fedVars, debVars, auxVars, call, contentA, contentB, strip_levelA, strip_levelB>>

(***************************************************************************)
(* deb_rpm_patch_analyzer.py: analyze_fedora_debian_patches                *)
(***************************************************************************)
\* the number of patch names on each side
NumRawPatches ==
    2

\* what get_patch_content returns for a patch file: nothing, or one of two
\* texts
RawTexts ==
    {NoContent, <<"X">>, <<"Y">>}

\* result before the patches are read
NoAnalysis ==
    [debian_patches |-> <<>>, fedora_patches |-> <<>>, common_patches |-> <<>>,
     unique_debian_patches |-> <<>>, unique_fedora_patches |-> <<>>]

\* the entries appended for the names whose content is not empty
RECURSIVE WithContent(_, _, _, _)
WithContent(names, texts, k, acc) ==
    IF k > Len(texts)
    THEN acc
    ELSE WithContent(names, texts, k + 1,
                     IF texts[k] # NoContent
                     THEN Append(acc, [name |-> names[k], content |-> texts[k]])
                     ELSE acc)

\* lines 445-464: the patches that have content are collected
AnalyzeLoad ==
    /\ apc = "load"
    /\ analysis' = [NoAnalysis EXCEPT
                      !.debian_patches = WithContent(DebianNameSeq, deb_texts, 1, <<>>),
                      !.fedora_patches = WithContent(FedoraNameSeq, fed_texts, 1, <<>>)]
    /\ deb_i' = 1
    /\ apc' = "match"
    /\ UNCHANGED <<deb_texts, fed_texts>>

\* lines 469-482: one Debian patch is compared with the Fedora patches in
\* order; the first of equal content makes a common entry, none makes the
\* Debian patch unique
AnalyzeDebian ==
    /\ apc = "match"
    /\ deb_i <= Len(analysis.debian_patches)
    /\ LET deb_patch == analysis.debian_patches[deb_i]
           equal     == {j \in 1..Len(analysis.fedora_patches) :
                            analysis.fedora_patches[j].content = deb_patch.content}
       IN  IF equal # {}
           THEN LET j == CHOOSE m \in equal : \A n \in equal : m <= n
                IN  analysis' = [analysis EXCEPT !.common_patches =
                        Append(@, [debian_patch |-> deb_patch.name,
                                   fedora_patch |-> analysis.fedora_patches[j].name,
                                   content |-> deb_patch.content])]
           ELSE analysis' = [analysis EXCEPT !.unique_debian_patches =
                        Append(@, deb_patch.name)]
    /\ deb_i' = deb_i + 1
    /\ UNCHANGED <<deb_texts, fed_texts, apc>>

\* the names of the entries, in order
NamesOf(patches) ==
    [k \in 1..Len(patches) |-> patches[k].name]

\* lines 484-486: a Fedora patch is unique when no Debian patch has its
\* content
AnalyzeFedora ==
    /\ apc = "match"
    /\ deb_i > Len(analysis.debian_patches)
    /\ LET debian_patch_contents == {analysis.debian_patches[k].content :
                                        k \in 1..Len(analysis.debian_patches)}
           HasNoDebian(fed_patch) == fed_patch.content \notin debian_patch_contents
       IN  analysis' = [analysis EXCEPT !.unique_fedora_patches =
                           NamesOf(SelectSeq(analysis.fedora_patches, HasNoDebian))]
    /\ apc' = "done"
    /\ UNCHANGED <<deb_texts, fed_texts, deb_i>>

(***************************************************************************)
(* rpm_patch_analyzer.py: replace_macros_with_values                       *)
(***************************************************************************)
max_iterations ==
    10

\* the length of the macro name that starts at position k of s: the run of
\* characters of [a-zA-Z0-9_]
RECURSIVE NameRun(_, _)
NameRun(s, k) ==
    IF k <= Len(s) /\ s[k] \in AlnumChars THEN 1 + NameRun(s, k + 1) ELSE 0

\* macro_pattern matched at the head of s: <<length of the match, group(1)>>,
\* length 0 when the pattern does not match there
MatchMacro(s) ==
    IF Len(s) >= 2 /\ s[1] = "%" /\ s[2] = "{"
    THEN LET q     == IF Len(s) >= 3 /\ s[3] = "?" THEN 1 ELSE 0
             len   == NameRun(s, 3 + q)
             close == 3 + q + len
         IN  IF len > 0 /\ close <= Len(s) /\ s[close] = "}"
             THEN <<close, SubSeq(s, 3, close - 1)>>
             ELSE <<0, <<>> >>
    ELSE <<0, <<>> >>

\* replace_macro: what one match is replaced with
ReplaceMacro(whole, macro_text, defs) ==
    IF macro_text[1] = "?"
    THEN LET macro_name == Tail(macro_text)
         IN  IF macro_name \in DOMAIN defs THEN defs[macro_name] ELSE <<>>
    ELSE IF macro_text \in DOMAIN defs THEN defs[macro_text] ELSE whole

\* macro_pattern.sub(replace_macro, s): the matches are replaced from left
\* to right, the replacements are not scanned again
RECURSIVE SubMacros(_, _)
SubMacros(s, defs) ==
    IF s = <<>>
    THEN <<>>
    ELSE LET m == MatchMacro(s)
         IN  IF m[1] = 0
             THEN <<Head(s)>> \o SubMacros(Tail(s), defs)
             ELSE ReplaceMacro(SubSeq(s, 1, m[1]), m[2], defs)
                      \o SubMacros(SubSeq(s, m[1] + 1, Len(s)), defs)

\* a variant of PassChangedNothing: no pass ends the loop
PassNeverLast(new_text, old_text) ==
    FALSE

\* if new_text == text: break
PassChangedNothing(new_text, old_text) ==
    new_text = old_text

\* the texts handed to the function
MacroTexts ==
    {<<"%", "{", "a", "}">>,
     <<"y", "%", "{", "?", "b", "}">>,
     <<"%", "{", "a", "}", "%", "{", "b", "}">>,
     <<"%", "{", "c", "}">>,
     <<"%", "{", "?", "c", "}">>,
     <<"%", "{", "a">>,
     <<"y">>}

\* the values a macro is defined as: plain, itself, itself with a prefix,
\* the other macro
MacroValues ==
    {<<"y">>,
     <<"%", "{", "a", "}">>,
     <<"y", "%", "{", "a", "}">>,
     <<"%", "{", "b", "}">>,
     <<"%", "{", "?", "c", "}">>}

MacroNames ==
    {<<"a">>, <<"b">>}

\* the defines maps: every map from some of the names to the values
MacroDefines ==
    UNION {[names -> MacroValues] : names \in SUBSET MacroNames}

\* one turn of the while loop: the test, the pass, the break
MacroPass ==
    /\ mpc = "loop"
    /\ iteration < max_iterations
    /\ iteration' = iteration + 1
    /\ LET new_text == SubMacros(text, defines)
       IN  IF PassChangedNothing(new_text, text)
           THEN /\ mpc' = "returned"
                /\ UNCHANGED text
           ELSE /\ text' = new_text
                /\ UNCHANGED mpc
    /\ UNCHANGED defines

\* the while test fails: return text
MacroReturn ==
    /\ mpc = "loop"
    /\ iteration >= max_iterations
    /\ mpc' = "returned"
    /\ UNCHANGED <<text, defines, iteration>>

(***************************************************************************)
(* Specifications                                                          *)
(***************************************************************************)
FedIdle ==
    /\ fed_raw = <<>>
    /\ ope_raw = <<>>
    /\ fed_contents = <<>>
    /\ ope_contents = <<>>
    /\ fed_left = {}
    /\ ope_left = {}
    /\ common_list = <<>>
    /\ similar_list = <<>>
    /\ report = NoReport
    /\ pc = "idle"
    /\ src_todo = {}
    /\ cur_s = NoName
    /\ tgt_todo = {}
    /\ run = 1
    /\ first_report = NoReport

DebIdle ==
    /\ fedora_patches = <<>>
    /\ debian_patches = <<>>
    /\ fedora_files = <<>>
    /\ debian_files = <<>>
    /\ matched_patches = <<>>
    /\ same_function_patches = <<>>
    /\ processed_patches = {}
    /\ unmatched_fedora = <<>>
    /\ unmatched_debian = <<>>
    /\ f_idx = 1
    /\ d_idx = 1
    /\ dpc = "idle"

ScoreIdle ==
    /\ call = "none"
    /\ contentA = <<>>
    /\ contentB = <<>>
    /\ strip_levelA = 0
    /\ strip_levelB = 0
    /\ result = NoResult
    /\ swapped = NoResult

NormIdle ==
    /\ patch_content = <<>>
    /\ is_list = TRUE
    /\ normalized = <<>>
    /\ features = <<>>
    /\ npc = "idle"

ThresholdIdle ==
    threshold = DefaultThreshold

BlendIdle ==
    /\ path_sets = <<{}, {}>>
    /\ added_term = RZero
    /\ removed_term = RZero
    /\ raw_term = RZero
    /\ returned_score = NoScore
    /\ bpc = "idle"

ConcIdle ==
    /\ calls = <<>>
    /\ reports = <<>>

RawIdle ==
    /\ deb_texts = <<>>
    /\ fed_texts = <<>>
    /\ analysis = NoAnalysis
    /\ deb_i = 0
    /\ apc = "idle"

MacroIdle ==
    /\ text = <<>>
    /\ defines = <<>>
    /\ iteration = 0
    /\ mpc = "idle"

AuxIdle ==
    NormIdle /\ ThresholdIdle /\ BlendIdle /\ ConcIdle /\ RawIdle /\ MacroIdle

\* the Fedora/openEuler comparison of one package pair
Init ==
    /\ fed_raw \in Collections(FedNameSeq, NumFed, FedPool)
    /\ ope_raw \in Collections(OpeNameSeq, NumOpe, OpePool)
    /\ fed_contents = <<>>
    /\ ope_contents = <<>>
    /\ fed_left = {}
    /\ ope_left = {}
    /\ common_list = <<>>
    /\ similar_list = <<>>
    /\ report = NoReport
    /\ pc = "load"
    /\ src_todo = {}
    /\ cur_s = NoName
    /\ tgt_todo = {}
    /\ run = 1
    /\ first_report = NoReport
    /\ DebIdle
    /\ ScoreIdle
    /\ AuxIdle

Next ==
    \/ LoadContents /\ UNCHANGED <<debVars, scoreVars, auxVars>>
    \/ MatchRoundBegin /\ UNCHANGED <<debVars, scoreVars, auxVars>>
    \/ NextSrc /\ UNCHANGED <<debVars, scoreVars, auxVars>>
    \/ CompareStep /\ UNCHANGED <<debVars, scoreVars, auxVars>>
    \/ MatchRoundEnd /\ UNCHANGED <<debVars, scoreVars, auxVars>>
    \/ WriteReport /\ UNCHANGED <<debVars, scoreVars, auxVars>>
    \/ RunAgain /\ UNCHANGED <<debVars, scoreVars, auxVars>>

Spec ==
    Init /\ [][Next]_vars

\* compare_fedora_debian_patches on the patch lists of one package
InitDeb ==
    /\ \E k \in 0..NumFedoraPatches : fedora_patches = SubSeq(FedoraNameSeq, 1, k)
    /\ \E k \in 0..NumDebianPatches : debian_patches = SubSeq(DebianNameSeq, 1, k)
    /\ fedora_files \in [SeqToSet(fedora_patches) -> FedoraFilePool]
    /\ debian_files \in [SeqToSet(debian_patches) -> DebianFilePool]
    /\ matched_patches = <<>>
    /\ same_function_patches = <<>>
    /\ processed_patches = {}
    /\ unmatched_fedora = <<>>
    /\ unmatched_debian = <<>>
    /\ f_idx = 1
    /\ d_idx = 1
    /\ dpc = "start"
    /\ threshold \in ThresholdArgs
    /\ FedIdle
    /\ ScoreIdle
    /\ NormIdle
    /\ BlendIdle
    /\ ConcIdle
    /\ RawIdle
    /\ MacroIdle

NextDeb ==
    \/ DebBegin /\ UNCHANGED <<fedVars, scoreVars, auxVars>>
    \/ FedoraStep /\ UNCHANGED <<fedVars, scoreVars, auxVars>>
    \/ DebianStep /\ UNCHANGED <<fedVars, scoreVars, auxVars>>
    \/ DebPostProcess /\ UNCHANGED <<fedVars, scoreVars, auxVars>>

SpecDeb ==
    InitDeb /\ [][NextDeb]_vars

\* one scorer applied to one pair of patches
InitScore ==
    /\ call \in {"compare_patches", "patch_similarity", "calculate_patch_similarity_improved"}
    /\ contentA \in ScorePatches
    /\ contentB \in ScorePatches
    /\ strip_levelA \in 0..MaxStripLevel
    /\ strip_levelB \in 0..MaxStripLevel
    /\ call = "calculate_patch_similarity_improved" => strip_levelA = 0 /\ strip_levelB = 0
    /\ result = NoResult
    /\ swapped = NoResult
    /\ threshold \in ThresholdArgs
    /\ call # "compare_patches" => threshold = DefaultThreshold
    /\ FedIdle
    /\ DebIdle
    /\ NormIdle
    /\ BlendIdle
    /\ ConcIdle
    /\ RawIdle
    /\ MacroIdle

NextScore ==
    \/ CallComparePatches
    \/ CallPatchSimilarity
    \/ CallImproved

SpecScore ==
    InitScore /\ [][NextScore]_vars

\* normalize_patch_content on one list of lines or one string
InitNorm ==
    /\ is_list \in BOOLEAN
    /\ \E lines \in NormInputs :
          patch_content = IF is_list THEN lines ELSE Join(lines, <<"\n">>)
    /\ normalized = <<>>
    /\ features = <<>>
    /\ npc = "call"
    /\ FedIdle
    /\ DebIdle
    /\ ScoreIdle
    /\ ThresholdIdle
    /\ BlendIdle
    /\ ConcIdle
    /\ RawIdle
    /\ MacroIdle

NextNorm ==
    CallNormalize /\ UNCHANGED <<fedVars, debVars, scoreVars>>

SpecNorm ==
    InitNorm /\ [][NextNorm]_vars

\* the last lines of calculate_patch_similarity_improved on given terms
InitBlend ==
    /\ path_sets \in PathSets \X PathSets
    /\ added_term \in JaccardValues
    /\ removed_term \in JaccardValues
    /\ raw_term \in RatioValues
    /\ returned_score = NoScore
    /\ bpc = "call"
    /\ FedIdle
    /\ DebIdle
    /\ ScoreIdle
    /\ NormIdle
    /\ ThresholdIdle
    /\ ConcIdle
    /\ RawIdle
    /\ MacroIdle

NextBlend ==
    CallBlend /\ UNCHANGED <<fedVars, debVars, scoreVars>>

SpecBlend ==
    InitBlend /\ [][NextBlend]_vars

\* the comparisons of the packages, each on its own patches
InitConc ==
    /\ \E input \in [Pkgs -> ConcInputs] :
          calls = [p \in Pkgs |->
                    [fed_raw |-> input[p][1], ope_raw |-> input[p][2],
                     fed_contents |-> <<>>, ope_contents |-> <<>>,
                     fed_left |-> {}, ope_left |-> {},
                     common_list |-> <<>>, similar_list |-> <<>>,
                     pc |-> "load", src_todo |-> {}, cur_s |-> NoName, tgt_todo |-> {}]]
    /\ reports = [p \in Pkgs |-> NoReport]
    /\ FedIdle
    /\ DebIdle
    /\ ScoreIdle
    /\ NormIdle
    /\ ThresholdIdle
    /\ BlendIdle
    /\ RawIdle
    /\ MacroIdle

\* one step of the run of one package
ConcStep(p) ==
    /\ \/ ConcLoad(p)
       \/ ConcRoundBegin(p)
       \/ ConcNextSrc(p)
       \/ ConcCompare(p)
       \/ ConcRoundEnd(p)
       \/ ConcWriteReport(p)
    /\ UNCHANGED <<fedVars, debVars, scoreVars, normVars, threshold, blendVars,
                   rawVars, macroVars>>

NextConc ==
    \E p \in Pkgs : ConcStep(p)

SpecConc ==
    InitConc /\ [][NextConc]_vars

\* analyze_fedora_debian_patches on NumRawPatches patch names per side
InitRaw ==
    /\ deb_texts \in [1..NumRawPatches -> RawTexts]
    /\ fed_texts \in [1..NumRawPatches -> RawTexts]
    /\ analysis = NoAnalysis
    /\ deb_i = 0
    /\ apc = "load"
    /\ FedIdle
    /\ DebIdle
    /\ ScoreIdle
    /\ NormIdle
    /\ ThresholdIdle
    /\ BlendIdle
    /\ ConcIdle
    /\ MacroIdle

NextRaw ==
    \/ AnalyzeLoad /\ UNCHANGED <<fedVars, debVars, scoreVars, normVars, threshold,
                                  blendVars, concVars, macroVars>>
    \/ AnalyzeDebian /\ UNCHANGED <<fedVars, debVars, scoreVars, normVars, threshold,
                                    blendVars, concVars, macroVars>>
    \/ AnalyzeFedora /\ UNCHANGED <<fedVars, debVars, scoreVars, normVars, threshold,
                                    blendVars, concVars, macroVars>>

SpecRaw ==
    InitRaw /\ [][NextRaw]_vars

\* replace_macros_with_values on one text and one defines map
InitMacro ==
    /\ text \in MacroTexts
    /\ defines \in MacroDefines
    /\ iteration = 0
    /\ mpc = "loop"
    /\ FedIdle
    /\ DebIdle
    /\ ScoreIdle
    /\ NormIdle
    /\ ThresholdIdle
    /\ BlendIdle
    /\ ConcIdle
    /\ RawIdle

NextMacro ==
    \/ MacroPass /\ UNCHANGED <<fedVars, debVars, scoreVars, normVars, threshold,
                                blendVars, concVars, rawVars>>
    \/ MacroReturn /\ UNCHANGED <<fedVars, debVars, scoreVars, normVars, threshold,
                                  blendVars, concVars, rawVars>>

\* the loop is sequential code of one call: a turn that can be taken is taken
SpecMacro ==
    InitMacro /\ [][NextMacro]_vars /\ WF_vars(NextMacro)

(***************************************************************************)
(* Properties of the Fedora/openEuler comparison (Spec)                    *)
(***************************************************************************)
CountIn(list, field, n) ==
    Cardinality({i \in 1..Len(list) : list[i][field] = n})

\* the number of places of the report a Fedora patch name appears at
FedOccurrences(n) ==
    CountIn(report.common_patches, "fedora", n)
    + CountIn(report.same_function_different_content, "fedora", n)
    + (IF n \in report.unique_fedora_patches THEN 1 ELSE 0)

OpeOccurrences(n) ==
    CountIn(report.common_patches, "openeuler", n)
    + CountIn(report.same_function_different_content, "openeuler", n)
    + (IF n \in report.unique_openeuler_patches THEN 1 ELSE 0)

\* C1: when the comparison of a package pair is finished, every Fedora patch
\* name with content occurs exactly once over common_patches,
\* same_function_different_content and unique_fedora_patches, and every
\* openEuler patch name with content exactly once over common_patches,
\* same_function_different_content and unique_openeuler_patches, whatever
\* order the remaining sets were iterated in.
C1_ExactlyOnePlace ==
    pc = "done" =>
        /\ \A n \in DOMAIN fed_contents : FedOccurrences(n) = 1
        /\ \A n \in DOMAIN ope_contents : OpeOccurrences(n) = 1

\* a finished comparison with a common pair and a similar pair
C1_Witness ==
    /\ pc = "done"
    /\ Len(report.common_patches) = 1
    /\ Len(report.same_function_different_content) = 1

SameFingerprint(a, b) ==
    get_patch_hash(normalize_patch_text(fed_contents[a]))
        = get_patch_hash(normalize_patch_text(ope_contents[b]))

\* the comparison of the exact round accepts the pair
ExactPair(a, b) ==
    compare_patches_by_diff_only(fed_contents[a], ope_contents[b], ExactThreshold)[2]

CommonPairs ==
    {<<report.common_patches[i].fedora, report.common_patches[i].openeuler>> :
        i \in 1..Len(report.common_patches)}

InSimilarOrUnique(a, b) ==
    \/ CountIn(report.same_function_different_content, "fedora", a) > 0
    \/ CountIn(report.same_function_different_content, "openeuler", b) > 0
    \/ a \in report.unique_fedora_patches
    \/ b \in report.unique_openeuler_patches

\* C4 as claimed: whenever a Fedora patch a and an openEuler patch b have
\* equal fingerprints, the pair (a, b) is in common and neither a nor b is in
\* similar or in a unique list, whatever else the collections contain.
C4_EqualFingerprintsPaired ==
    pc = "done" =>
        \A a \in DOMAIN fed_contents, b \in DOMAIN ope_contents :
            SameFingerprint(a, b) =>
                <<a, b>> \in CommonPairs /\ ~InSimilarOrUnique(a, b)

\* C4 amended: whenever a and b have equal fingerprints, at least one of
\* them is paired in common; and when no other patch scores 1.0 against a
\* or against b, the pair (a, b) itself is in common and neither a nor b is
\* in similar or in a unique list.
C4_EqualFingerprintsCommon ==
    pc = "done" =>
        \A a \in DOMAIN fed_contents, b \in DOMAIN ope_contents :
            SameFingerprint(a, b) =>
                /\ \/ CountIn(report.common_patches, "fedora", a) > 0
                   \/ CountIn(report.common_patches, "openeuler", b) > 0
                /\ ( /\ \A b2 \in DOMAIN ope_contents \ {b} : ~ExactPair(a, b2)
                     /\ \A a2 \in DOMAIN fed_contents \ {a} : ~ExactPair(a2, b) )
                   => <<a, b>> \in CommonPairs /\ ~InSimilarOrUnique(a, b)

\* two patches of different text and equal fingerprint are the common pair,
\* next to another patch on each side
C4_Witness ==
    /\ pc = "done"
    /\ \E a \in DOMAIN fed_contents, b \in DOMAIN ope_contents :
        /\ SameFingerprint(a, b)
        /\ fed_contents[a] # ope_contents[b]
        /\ <<a, b>> \in CommonPairs
        /\ \A b2 \in DOMAIN ope_contents \ {b} : ~ExactPair(a, b2)
        /\ \A a2 \in DOMAIN fed_contents \ {a} : ~ExactPair(a2, b)
    /\ Cardinality(DOMAIN fed_contents) = 2
    /\ Cardinality(DOMAIN ope_contents) = 2

\* a report without the order of its lists
ReportView(r) ==
    [common_patches |-> SeqToSet(r.common_patches),
     same_function_different_content |-> SeqToSet(r.same_function_different_content),
     unique_fedora_patches |-> r.unique_fedora_patches,
     unique_openeuler_patches |-> r.unique_openeuler_patches]

\* C9: a second run on the same two collections reports the same common
\* pairs, the same similar pairs with the same scores and the same unique
\* patches as the first run, whatever order the sets are iterated in.
C9_SameReportTwice ==
    (pc = "done" /\ run > 1) => ReportView(report) = ReportView(first_report)

(***************************************************************************)
(* Properties of compare_fedora_debian_patches (SpecDeb)                   *)
(***************************************************************************)
FedoraListed ==
    SeqToSet(fedora_patches)

DebianListed ==
    SeqToSet(debian_patches)

MatchedDebian ==
    {matched_patches[f].debian_patch : f \in DOMAIN matched_patches}

SameFunctionFedora ==
    {same_function_patches[i].Fedora : i \in 1..Len(same_function_patches)}

SameFunctionDebian ==
    {same_function_patches[i].Debian : i \in 1..Len(same_function_patches)}

\* the number of outputs a Fedora patch name appears in
FedoraPlaces(f) ==
    (IF f \in DOMAIN matched_patches THEN 1 ELSE 0)
    + (IF f \in SameFunctionFedora THEN 1 ELSE 0)
    + (IF f \in SeqToSet(unmatched_fedora) THEN 1 ELSE 0)

DebianPlaces(d) ==
    (IF d \in MatchedDebian THEN 1 ELSE 0)
    + (IF d \in SameFunctionDebian THEN 1 ELSE 0)
    + (IF d \in SeqToSet(unmatched_debian) THEN 1 ELSE 0)

\* the number of Fedora patches a Debian patch is paired with
DebianPartners(d) ==
    Cardinality({f \in DOMAIN matched_patches : matched_patches[f].debian_patch = d})
    + CountIn(same_function_patches, "Debian", d)

\* C2: after compare_fedora_debian_patches no Fedora patch name is in more
\* than one of matched_patches, same_function_patches and unmatched_fedora.
C2_FedoraInOnePlace ==
    dpc = "done" => \A f \in FedoraListed : FedoraPlaces(f) <= 1

\* C3: after compare_fedora_debian_patches every Debian patch name is in
\* exactly one of the matched Debian patches, the Debian side of
\* same_function_patches and unmatched_debian, and is paired with at most
\* one Fedora patch over matched_patches and same_function_patches.
C3_DebianInOnePlace ==
    dpc = "done" =>
        \A d \in DebianListed : DebianPlaces(d) = 1 /\ DebianPartners(d) <= 1

LowestThreshold ==
    thresholds[Len(thresholds)]

\* the Fedora patch scores below the lowest threshold against every Debian
\* patch
BelowAll(f) ==
    \A d \in DebianListed :
        RLt(ImprovedSimilarity(fedora_files[f], debian_files[d]),
            LowestThreshold)

\* C10: after compare_fedora_debian_patches every listed Fedora patch name
\* is in matched_patches, same_function_patches or unmatched_fedora, every
\* listed Debian patch name is a matched Debian patch, the Debian side of a
\* same_function entry or in unmatched_debian, and a Fedora patch that
\* scores below 0.5 against every Debian patch is in unmatched_fedora.
C10_NothingDropped ==
    dpc = "done" =>
        /\ \A f \in FedoraListed : FedoraPlaces(f) >= 1
        /\ \A d \in DebianListed : DebianPlaces(d) >= 1
        /\ \A f \in FedoraListed : BelowAll(f) => f \in SeqToSet(unmatched_fedora)

\* a Fedora patch that was scored against a Debian patch, stayed below the
\* lowest threshold everywhere and is reported unmatched, next to a Debian
\* patch that lost its similar entry to a better one
C10_Witness ==
    /\ dpc = "done"
    /\ \E f \in FedoraListed, d \in DebianListed :
        /\ <<f, d>> \in processed_patches
        /\ BelowAll(f)
        /\ f \in SeqToSet(unmatched_fedora)
    /\ \E d \in DebianListed :
        /\ d \in SeqToSet(unmatched_debian)
        /\ \E f \in FedoraListed :
            /\ <<f, d>> \in processed_patches
            /\ ~RLt(ImprovedSimilarity(fedora_files[f], debian_files[d]),
                    LowestThreshold)

(***************************************************************************)
(* Properties of the scorers (SpecScore)                                   *)
(***************************************************************************)
Returned ==
    result # NoResult

\* no line of the patch starts a hunk
NoHunkMarker(content) ==
    \A i \in 1..Len(content) : ~StartsWith(content[i], HunkMarker)

\* C5: a patch whose text has no hunk-marker line never matches: it scores 0
\* against every patch of the other side, in compare_patches and in
\* calculate_patch_similarity_improved, whatever the other patch contains
\* (stated here for two different patches that both have text).
C5_NoHunkScoresZero ==
    ( /\ Returned
      /\ call \in {"compare_patches", "calculate_patch_similarity_improved"}
      /\ contentA # <<>>
      /\ contentB # <<>>
      /\ contentA # contentB
      /\ NoHunkMarker(contentA) )
    => result[1] = RZero

\* C6: self-similarity is perfect: for every non-empty patch P the scorer
\* returns exactly 1.0 for (P, P), in patch_similarity and in
\* calculate_patch_similarity_improved, also when P only adds or only
\* removes lines or its hunk region names no file (stated here for the
\* patches that have a hunk marker).
C6_SelfSimilarityIsOne ==
    ( /\ Returned
      /\ call \in {"patch_similarity", "calculate_patch_similarity_improved"}
      /\ contentA = contentB
      /\ strip_levelA = strip_levelB
      /\ contentA # <<>>
      /\ ~NoHunkMarker(contentA) )
    => result[1] = ROne

\* C7: the scorers return for (B, A) what they return for (A, B), in
\* calculate_patch_similarity_improved and in compare_patches (with the
\* strip levels exchanged as well).
C7_Symmetric ==
    ( /\ Returned
      /\ call \in {"compare_patches", "calculate_patch_similarity_improved"} )
    => result = swapped

\* C8: every score lies in [0, 1]: the one of
\* calculate_patch_similarity_improved, with the raw-text blend and without
\* it, and the one of compare_patches and patch_similarity under the
\* default weights 0.3 and 0.7.
C8_ScoreInUnitInterval ==
    Returned => RLeq(RZero, result[1]) /\ RLeq(result[1], ROne)

\* the raw-text blend was applied to a positive weighted sum
C8_Witness ==
    /\ Returned
    /\ call = "calculate_patch_similarity_improved"
    /\ contentA # <<>>
    /\ contentB # <<>>
    /\ LET t == ImprovedTerms(contentA, contentB)
       IN  /\ RLt(t.code_similarity, RHalf)
           /\ RLt(RawBlendMin, t.raw_similarity)
           /\ RLt(RZero, t.path_similarity)

\* the two patches are byte-identical after normalization
SameNormalized ==
    get_patch_hash(normalize_patch_content(contentA))
        = get_patch_hash(normalize_patch_content(contentB))

\* C11: the fingerprint fast path of compare_patches agrees with the scorer:
\* for two patches whose normalized content is identical (taken here with
\* equal strip levels and a hunk marker in each), patch_similarity on their
\* extracted features under the weights of compare_patches is 1.0, the score
\* the fast path returns.
C11_FastPathAgreesWithScorer ==
    ( /\ Returned
      /\ call = "patch_similarity"
      /\ ~NoHunkMarker(contentA)
      /\ ~NoHunkMarker(contentB)
      /\ strip_levelA = strip_levelB
      /\ SameNormalized )
    => result[1] = ROne

\* the lines of a patch from its first hunk-marker line on
RECURSIVE FromFirstHunk(_)
FromFirstHunk(content) ==
    IF content = <<>>
    THEN <<>>
    ELSE IF StartsWith(Head(content), HunkMarker)
         THEN content
         ELSE FromFirstHunk(Tail(content))

\* the two patches differ at most in what precedes the first hunk marker
\* and in what is written on their hunk-marker lines
DifferOnlyInCoordinates(a, b) ==
    LET ha == FromFirstHunk(a)
        hb == FromFirstHunk(b)
    IN  /\ Len(ha) = Len(hb)
        /\ \A i \in 1..Len(ha) :
              \/ ha[i] = hb[i]
              \/ StartsWith(ha[i], HunkMarker) /\ StartsWith(hb[i], HunkMarker)

\* C12: two patches that differ only in the coordinates on their hunk-marker
\* lines and in what precedes the first hunk marker normalize to the same
\* lines, have the same fingerprint, and compare_patches returns (1.0, True)
\* for them.
C12_CoordinatesIgnored ==
    ( /\ Returned
      /\ call = "compare_patches"
      /\ DifferOnlyInCoordinates(contentA, contentB) )
    => /\ normalize_patch_content(contentA) = normalize_patch_content(contentB)
       /\ SameNormalized
       /\ result = <<ROne, TRUE>>

\* two different texts with a hunk each, compared by compare_patches
C12_Witness ==
    /\ Returned
    /\ call = "compare_patches"
    /\ contentA # contentB
    /\ ~NoHunkMarker(contentA)
    /\ DifferOnlyInCoordinates(contentA, contentB)
    /\ \E i \in 1..Len(contentA) : IsDiffLine(contentA[i])

\* the lines normalize_patch_content loops over
InputLines ==
    IF is_list THEN patch_content ELSE SplitLines(patch_content, <<>>, <<>>)

\* C13: normalize_patch_content is total: for every string and every list
\* of strings it returns a list of lines without raising, and it returns the
\* empty list whenever no line of the input is a hunk-marker line.
C13_NormalizeTotal ==
    npc = "returned" =>
        /\ normalized[1] = "list"
        /\ \A i \in 1..Len(normalized[2]) : normalized[2][i] \in Seq(STRING)
        /\ NoHunkMarker(InputLines) => normalized[2] = <<>>

\* a string without a hunk marker that holds a header prefix followed by
\* white space only, and a list whose hunk holds such a line
C13_Witness ==
    /\ npc = "returned"
    /\ \/ /\ ~is_list
          /\ NoHunkMarker(InputLines)
          /\ \E i \in 1..Len(InputLines) : InputLines[i] = LineHeaderTab
       \/ /\ is_list
          /\ patch_content = <<LineHunk, LineHeaderTab>>
          /\ normalized = <<"list", <<<<"@", "@">>, <<"-", "-", "-">>>>>>

\* the score match_round computes for a Fedora and an openEuler patch
PairScore(s, t) ==
    compare_patches_by_diff_only(fed_contents[s], ope_contents[t], SimilarThreshold)[1]

\* C14: in a similarity round a matched A-patch is paired with the remaining
\* B-patch of highest score: no B-patch that is still remaining scores higher
\* against the A-patch of a recorded pair than the B-patch it was paired with.
C14_BestRemainingPaired ==
    \A i \in 1..Len(similar_list) : \A t \in ope_left :
        RLeq(PairScore(similar_list[i].fedora, t),
             PairScore(similar_list[i].fedora, similar_list[i].openeuler))

\* C15: a patch name whose content could not be retrieved appears in none of
\* the outputs of compare_fedora_debian_patches: not in matched_patches, not
\* in same_function_patches and not in an unmatched list (here when both
\* name lists are not empty, so that the comparison loop runs).
C15_NoContentInNoOutput ==
    (dpc = "done" /\ fedora_patches # <<>> /\ debian_patches # <<>>) =>
        /\ \A f \in FedoraListed : fedora_files[f] = NoContent => FedoraPlaces(f) = 0
        /\ \A d \in DebianListed : debian_files[d] = NoContent => DebianPlaces(d) = 0

\* the threshold is a number of [0, 1]
ValidThreshold ==
    RLeq(RZero, threshold) /\ RLeq(threshold, ROne)

\* C16: a misconfigured comparison is rejected eagerly: with a threshold
\* outside [0, 1] compare_patches returns no similarity and no classification
\* (here for two patches that have a hunk and different fingerprints).
C16_BadThresholdRejected ==
    (/\ call = "compare_patches"
     /\ ~ValidThreshold
     /\ ~NoHunkMarker(contentA)
     /\ ~NoHunkMarker(contentB)
     /\ ~SameNormalized) => result = NoResult

\* the similarity of the i-th pair of same_function_patches
ReportedSimilarity(i) ==
    ImprovedSimilarity(fedora_files[same_function_patches[i].Fedora],
                       debian_files[same_function_patches[i].Debian])

\* C17: compare_fedora_debian_patches honours the threshold of its caller:
\* with a threshold of [0, 1], no pair of same_function_patches has a
\* similarity below the threshold.
C17_ThresholdHonoured ==
    (dpc = "done" /\ ValidThreshold) =>
        \A i \in 1..Len(same_function_patches) : RLeq(threshold, ReportedSimilarity(i))

\* the terms of the example: same path set, added-line Jaccard 0.9,
\* removed-line Jaccard 0
ExampleTerms ==
    /\ bpc = "returned"
    /\ path_sets[1] = path_sets[2] /\ path_sets[1] # {}
    /\ added_term = Rat(9, 10)
    /\ removed_term = RZero

\* C18 as stated: with path similarity 1, added-line Jaccard 0.9 and
\* removed-line Jaccard 0 the scorer returns a value above 0.7 and below 1.
C18_ExampleAboveSevenTenths ==
    ExampleTerms =>
        RLt(Rat(7, 10), returned_score) /\ RLt(returned_score, ROne)

\* C18 amended: with these terms the scorer returns 0.505 when the raw ratio
\* is at most 0.8 and the mean of 0.505 and the raw ratio otherwise; the
\* value is above 0.5 and below 1, and above 0.7 only when the raw ratio is
\* above 0.895.
C18_ExampleScore ==
    ExampleTerms =>
        /\ RLt(RHalf, returned_score) /\ RLt(returned_score, ROne)
        /\ RLeq(raw_term, Rat(8, 10)) => returned_score = Rat(101, 200)
        /\ RLt(Rat(8, 10), raw_term) =>
                returned_score = RDiv2(RAdd(Rat(101, 200), raw_term))
        /\ RLt(Rat(7, 10), returned_score) => RLt(Rat(179, 200), raw_term)

\* the example with removed lines that share little text: the raw ratio is
\* low and the value returned is 0.505
C18_Witness ==
    /\ ExampleTerms
    /\ raw_term = RHalf
    /\ returned_score = Rat(101, 200)

\* the n-grams of the lines of a patch that a predicate keeps
NgramsOf(lines, Kept(_)) ==
    generate_ngrams(FlattenTokens(MarkedLines(SelectSeq(lines, Kept))))

\* the features patch_similarity receives
FeaturesA ==
    extract_patch_features(normalize_patch_content(contentA), strip_levelA)

FeaturesB ==
    extract_patch_features(normalize_patch_content(contentB), strip_levelB)

\* C19: no division by zero occurs in the scorers: the score returned is a
\* defined number for every pair of inputs, no term stands for a division by
\* zero, patch_similarity is 0 when both file sets and both diff-line sets are
\* empty, and in calculate_patch_similarity_improved the path term, the
\* added term and the removed term are 0 when both of their sets are empty.
C19_NoDivisionByZero ==
    Returned =>
        /\ result[1] # DivisionByZero
        /\ (/\ call = "patch_similarity"
            /\ FeaturesA.normalized_filenames = {} /\ FeaturesB.normalized_filenames = {}
            /\ FeaturesA.normalized_diff_lines = <<>> /\ FeaturesB.normalized_diff_lines = <<>>)
                => result[1] = RZero
        /\ (call = "calculate_patch_similarity_improved" /\ contentA # <<>> /\ contentB # <<>>) =>
                LET t == ImprovedTerms(contentA, contentB)
                IN  /\ t.path_similarity # DivisionByZero
                    /\ t.added_jaccard # DivisionByZero
                    /\ t.removed_jaccard # DivisionByZero
                    /\ t.raw_similarity # DivisionByZero
                    /\ (extract_fuzzy_paths(contentA) = {} /\ extract_fuzzy_paths(contentB) = {})
                            => t.path_similarity = RZero
                    /\ (NgramsOf(contentA, IsAddedLine) = {} /\ NgramsOf(contentB, IsAddedLine) = {})
                            => t.added_jaccard = RZero
                    /\ (NgramsOf(contentA, IsRemovedLine) = {} /\ NgramsOf(contentB, IsRemovedLine) = {})
                            => t.removed_jaccard = RZero

\* two patches that are no diffs: every set of the improved scorer is empty
C19_Witness ==
    /\ Returned
    /\ call = "calculate_patch_similarity_improved"
    /\ contentA = PatchTextA
    /\ contentB = PatchTextB
    /\ extract_fuzzy_paths(contentA) = {} /\ extract_fuzzy_paths(contentB) = {}
    /\ NgramsOf(contentA, IsAddedLine) = {} /\ NgramsOf(contentB, IsRemovedLine) = {}

\* the texts main keeps for the patches of a package that have content
ContentsOf(raw) ==
    [n \in {m \in DOMAIN raw : raw[m] # <<>>} |-> normalize_content(raw[n])]

\* the run of package p has ended as the comparison of its patches can end
\* when it runs alone
EndsAsAlone(p) ==
    /\ calls[p].pc # "KeyError"
    /\ calls[p].pc = "done" =>
            reports[p] \in SoloReports(ContentsOf(calls[p].fed_raw), ContentsOf(calls[p].ope_raw))
    /\ calls[p].pc # "done" => reports[p] = NoReport

\* no step changes the patches a package was given
InputsKept ==
    \A p \in Pkgs :
        calls'[p].fed_raw = calls[p].fed_raw /\ calls'[p].ope_raw = calls[p].ope_raw

Candidates(f) ==
    {d \in DebianListed :
        /\ fedora_files[f] # <<>> /\ debian_files[d] # <<>>
        /\ Len(fedora_files[f]) <= MaxPatchLines /\ Len(debian_files[d]) <= MaxPatchLines
        /\ Len(fedora_files[f]) >= MinPatchLines /\ Len(debian_files[d]) >= MinPatchLines
        /\ ImprovedSimilarity(fedora_files[f], debian_files[d]) # ROne
        /\ RLeq(LowestThreshold, ImprovedSimilarity(fedora_files[f], debian_files[d]))}

\* the similarity recorded for the pair
Recorded(f, d) ==
    FormatSimilarity(ImprovedSimilarity(fedora_files[f], debian_files[d]))

\* the positions of the entries of same_function_patches for Fedora patch f
SimilarEntries(f) ==
    {i \in 1..Len(same_function_patches) : same_function_patches[i].Fedora = f}

\* C21: after the post-processing of compare_fedora_debian_patches there is
\* at most one similar entry per Fedora patch (one exactly when a Debian
\* candidate was recorded for it), it names one of the candidates, and its
\* similarity is the maximum of the similarities recorded for the candidates.
C21_BestSimilarKept ==
    dpc = "done" =>
        \A f \in FedoraListed :
            /\ Cardinality(SimilarEntries(f)) <= 1
            /\ SimilarEntries(f) = {} <=> Candidates(f) = {}
            /\ \A i \in SimilarEntries(f) :
                    /\ same_function_patches[i].Debian \in Candidates(f)
                    /\ same_function_patches[i].Similarity =
                            Recorded(f, same_function_patches[i].Debian)
                    /\ \A d \in Candidates(f) :
                            RLeq(Recorded(f, d), same_function_patches[i].Similarity)

\* a Fedora patch with two candidates; the later one scores higher and is
\* the one kept
C21_Witness ==
    /\ dpc = "done"
    /\ \E f \in FedoraListed : \E i \in SimilarEntries(f) :
            \E d1 \in 1..Len(debian_patches) : \E d2 \in (d1 + 1)..Len(debian_patches) :
                /\ debian_patches[d1] \in Candidates(f)
                /\ debian_patches[d2] = same_function_patches[i].Debian
                /\ RLt(Recorded(f, debian_patches[d1]), Recorded(f, debian_patches[d2]))

\* 0.1 * path + 0.9 * (0.5 * added + 0.5 * removed) for the terms at hand,
\* the path term being 0 when either path set is empty
WeightedSum ==
    LET path == IF path_sets[1] = {} \/ path_sets[2] = {}
                THEN <<0, 1>>
                ELSE <<Cardinality(path_sets[1] \cap path_sets[2]),
                       Cardinality(path_sets[1] \cup path_sets[2])>>
        code == <<added_term[1] * removed_term[2] + removed_term[1] * added_term[2],
                  2 * added_term[2] * removed_term[2]>>
    IN  <<path[1] * 10 * code[2] + 9 * code[1] * 10 * path[2], 10 * path[2] * 10 * code[2]>>

\* the two numbers are equal
SameNumber(x, y) ==
    x[1] * y[2] = y[1] * x[2]

\* code_similarity < 0.5 and raw_similarity > 0.8, both strict
BlendCase ==
    /\ 2 * (added_term[1] * removed_term[2] + removed_term[1] * added_term[2])
            < 2 * added_term[2] * removed_term[2]
    /\ 10 * raw_term[1] > 8 * raw_term[2]

\* C22: calculate_patch_similarity_improved returns
\* 0.1 * path_similarity + 0.9 * (0.5 * added_jaccard + 0.5 * removed_jaccard),
\* with path_similarity 0 when either path set is empty, and returns the mean
\* of that value and raw_similarity exactly when code_similarity < 0.5 and
\* raw_similarity > 0.8.
C22_WeightedSumAndBlend ==
    bpc = "returned" =>
        IF BlendCase
        THEN SameNumber(returned_score,
                        <<WeightedSum[1] * raw_term[2] + raw_term[1] * WeightedSum[2],
                          2 * WeightedSum[2] * raw_term[2]>>)
        ELSE SameNumber(returned_score, WeightedSum)

\* the code similarity is 0.5 exactly, the raw ratio is above 0.8, one path
\* set is empty: the weighted sum is returned as it is
C22_Witness ==
    /\ bpc = "returned"
    /\ added_term = Rat(3, 10)
    /\ removed_term = Rat(7, 10)
    /\ raw_term = Rat(9, 10)
    /\ path_sets = <<{}, {"x.c"}>>
    /\ returned_score = Rat(9, 20)


\* the line as the loop sees it inside a hunk: carriage returns removed,
\* white space trimmed
CleanLine(line) ==
    Strip(RemoveChar(line, "\r"))

\* the positions of the input that lie after a hunk-marker line and are not
\* hunk-marker lines themselves
HunkRegion ==
    {i \in 1..Len(InputLines) :
        /\ ~StartsWith(InputLines[i], HunkMarker)
        /\ \E j \in 1..(i - 1) : StartsWith(InputLines[j], HunkMarker)}

\* the marker of a header line followed by the path the line names (its
\* first field after the marker) without the a/ and b/ prefixes
HeaderWithPath(clean_line) ==
    SubSeq(clean_line, 1, 4) \o
        StripABPrefix(SplitWs(clean_line, <<>>, <<>>)[2])

\* C23: for each '--- ' or '+++ ' header line inside the hunk region,
\* normalize_patch_content emits the marker followed by the path named on
\* the line without its a/ and b/ prefixes, whatever follows the path.
C23_HeaderKeepsPath ==
    npc = "returned" =>
        \A i \in HunkRegion :
            IsFileHeader(CleanLine(InputLines[i])) =>
                /\ normalized[1] = "list"
                /\ HeaderWithPath(CleanLine(InputLines[i])) \in SeqToSet(normalized[2])

\* C24: '+++ ' and '--- ' file-header lines never enter the diff lines that
\* feature extraction returns: normalized_diff_lines holds only lines that
\* begin with '+' but not '+++', or with '-' but not '---'.
C24_HeadersNotDiffLines ==
    (npc = "returned" /\ features # <<>>) =>
        \A l \in SeqToSet(features[1].normalized_diff_lines) :
            /\ ~StartsWith(l, <<"+", "+", "+">>)
            /\ ~StartsWith(l, <<"-", "-", "-">>)

\* C28: after normalize_patch_content and extract_patch_features,
\* normalized_diff_lines contains only lines that began with '+' or '-' in
\* the raw patch text: a context line is never counted as a change.
C28_ContextNotCounted ==
    (npc = "returned" /\ features # <<>>) =>
        \A l \in SeqToSet(features[1].normalized_diff_lines) :
            \E i \in HunkRegion :
                /\ IsDiffLine(InputLines[i])
                /\ NormalizeHunkLine(InputLines[i]) = <<l>>


\* the comparison of the similarity round accepts the pair
SimilarPair(a, b) ==
    compare_patches_by_diff_only(fed_contents[a], ope_contents[b], SimilarThreshold)[2]

\* the exact round has just returned
ExactRoundOver ==
    pc = "call_sim"

\* the similarity round has just returned
SimilarRoundOver ==
    pc = "leftover"

\* what holds in the states of a run: nothing is recorded as similar before
\* the exact round has returned, when it returns no remaining pair passes
\* at 1.0, and every pair of same_function_different_content scores in
\* [0.8, 1.0)
RoundsInOrder ==
    /\ pc \in {"call_common", "round_common"} => similar_list = <<>>
    /\ ExactRoundOver =>
          \A a \in fed_left, b \in ope_left : ~ExactPair(a, b)
    /\ pc = "done" =>
          \A i \in 1..Len(report.same_function_different_content) :
              LET e   == report.same_function_different_content[i]
                  sim == PairScore(e.fedora, e.openeuler)
              IN  /\ RLeq(SimilarThreshold, sim)
                  /\ RLt(sim, ExactThreshold)
                  /\ e.similarity = RoundTo(sim, 1000)

\* what holds of every step of one run: the remaining sets only shrink, the
\* similarity round is entered only from the return of the exact round
RoundsStep ==
    /\ pc # "load" => (fed_left' \subseteq fed_left /\ ope_left' \subseteq ope_left)
    /\ (pc' = "call_sim" /\ pc # "call_sim") => (pc = "round_common" /\ src_todo = {})
    /\ (pc' = "round_sim" /\ pc # "round_sim") => pc = "call_sim"
    /\ (pc' = "round_common" /\ pc # "round_common") => pc = "call_common"

\* C25: rounds run highest threshold first and each round sees only the
\* patches still remaining: the exact round completes before the similarity
\* round starts, the remaining sets only shrink, and every pair recorded in
\* same_function_different_content scores at or above 0.8 and strictly
\* below 1.0.
C25_RoundsHighestFirst ==
    []RoundsInOrder /\ [][RoundsStep]_vars

\* a finished run in which the exact round paired one patch and the
\* similarity round paired another from what remained
C25_Witness ==
    /\ pc = "done"
    /\ Len(common_list) = 1
    /\ Len(similar_list) = 1
    /\ RLt(PairScore(similar_list[1].fedora, similar_list[1].openeuler), ExactThreshold)

\* C27: after a round at threshold T no remaining Fedora patch and remaining
\* openEuler patch qualify at T, for every iteration order: when the pipeline
\* finishes, no patch of unique_fedora_patches and patch of
\* unique_openeuler_patches would be accepted at 0.8 or at 1.0.
C27_NoQualifyingPairLeft ==
    /\ ExactRoundOver =>
          \A a \in fed_left, b \in ope_left : ~ExactPair(a, b)
    /\ SimilarRoundOver =>
          \A a \in fed_left, b \in ope_left : ~SimilarPair(a, b)
    /\ pc = "done" =>
          \A a \in report.unique_fedora_patches, b \in report.unique_openeuler_patches :
              ~SimilarPair(a, b) /\ ~ExactPair(a, b)

\* a finished run that leaves a patch on each side unmatched while another
\* pair was matched
C27_Witness ==
    /\ pc = "done"
    /\ report.unique_fedora_patches # {}
    /\ report.unique_openeuler_patches # {}
    /\ Len(common_list) + Len(similar_list) >= 1
    /\ \E a \in report.unique_fedora_patches, b \in report.unique_openeuler_patches :
          RLt(RZero, PairScore(a, b))


\* the number of entries of a list of common_patches whose field is the name
CommonWith(field, name) ==
    Cardinality({k \in 1..Len(analysis.common_patches) :
                    analysis.common_patches[k][field] = name})

\* the number of times the name is listed
ListedIn(names, name) ==
    Cardinality({k \in 1..Len(names) : names[k] = name})

\* C26: in analyze_fedora_debian_patches every Debian patch with content is
\* in exactly one of common_patches and unique_debian_patches, and every
\* Fedora patch with content is the fedora_patch of some common_patches entry
\* or is listed in unique_fedora_patches.
C26_EveryPatchAccounted ==
    apc = "done" =>
        /\ \A k \in 1..Len(analysis.debian_patches) :
              CommonWith("debian_patch", analysis.debian_patches[k].name)
                + ListedIn(analysis.unique_debian_patches,
                           analysis.debian_patches[k].name) = 1
        /\ \A k \in 1..Len(analysis.fedora_patches) :
              \/ CommonWith("fedora_patch", analysis.fedora_patches[k].name) > 0
              \/ ListedIn(analysis.unique_fedora_patches,
                          analysis.fedora_patches[k].name) > 0

\* a turn of the loop whose pass leaves the text unchanged is the last one,
\* and the text changes only in a turn that is counted
PassesCounted ==
    /\ (mpc = "loop" /\ iteration' = iteration + 1
            /\ SubMacros(text, defines) = text) => mpc' = "returned"
    /\ text' # text => (iteration' = iteration + 1 /\ text' = SubMacros(text, defines))

\* C30: replace_macros_with_values terminates for every text and every
\* defines map, self-referential and mutually recursive definitions
\* included: it performs at most 10 substitution passes and stops as soon as
\* a pass leaves the text unchanged.
C30_MacrosTerminate ==
    /\ <>(mpc = "returned")
    /\ [](iteration <= max_iterations)
    /\ [][PassesCounted]_vars

\* a call that returned after the tenth pass with a text that another pass
\* would still change: a macro defined by itself or by the other macro
C30_Witness ==
    /\ mpc = "returned"
    /\ iteration = max_iterations
    /\ SubMacros(text, defines) # text


StripLevels ==
    0..MaxStripLevel

\* the features of a content do not depend on the strip level
SameFeatures(content) ==
    \A level \in StripLevels :
        extract_patch_features(normalize_patch_content(content), level)
            = extract_patch_features(normalize_patch_content(content), 0)

\* C29: the strip level does not influence the comparison:
\* extract_patch_features returns the same normalized_filenames and
\* normalized_diff_lines for every strip_level, so compare_patches returns
\* the same result for every choice of strip_levelA and strip_levelB.
C29_StripLevelIgnored ==
    (call = "compare_patches" /\ result # NoResult) =>
        /\ SameFeatures(contentA)
        /\ SameFeatures(contentB)
        /\ \A levelA \in StripLevels, levelB \in StripLevels :
              compare_patches(contentA, contentB, levelA, levelB,
                              DefaultFileWeight, DefaultDiffWeight, threshold) = result

\* a call with strip level 1 on a patch whose header names a file below
\* two directories, compared with a patch of another fingerprint
C29_Witness ==
    /\ call = "compare_patches"
    /\ result # NoResult
    /\ contentA = PatchDeepPath
    /\ contentB = PatchTwoFiles
    /\ strip_levelA = 1
    /\ strip_levelB = 0
    /\ strip_patch_path(<<"s", "r", "c", "/", "l", "i", "b", "/", "y", ".", "c">>, strip_levelA)
          = <<"l", "i", "b", "/", "y", ".", "c">>
    /\ RLt(RZero, result[1])

=============================================================================
